---- MODULE Spec2Model ----
\* Downscale orchestration of the Elasticsearch operator (package driver):
\* HandleDownscale and the functions it calls, one reconciliation pass at a
\* time, every blocking Kubernetes / Elasticsearch call being one step.
\* With it: the default PodDisruptionBudget (package pdb) and the remote
\* clusters of the cluster settings (package remotecluster).
EXTENDS Integers, Sequences, FiniteSets, TLC

\* ---------------------------------------------------------------- bounds
\* Highest replica count of a StatefulSet in the generated inputs.
MaxReplicas == 3
\* Highest replica count of the second StatefulSet in the generated inputs.
MaxTransient == 1
\* The same two bounds for the inputs of the runs made twice in a row.
MaxReplicasTwice == 2
MaxTransientTwice == 1
\* Highest number of StatefulSets given to buildPDBSpec, and highest replica
\* count of one of them.
MaxPdbSsets == 2
MaxPdbReplicas == 1
\* Highest number of entries of spec.remoteClusters.
MaxRemoteClusters == 2

\* ------------------------------------------------------- program constants
\* minimumMasterNodes := 1 in maybeUpdateZen1ForDownscale.
minimumMasterNodes == 1
\* the 2 of "len(mastersReady) != 2".
TwoMasters == 2
\* the number of pod conditions that must be true for a pod to be ready.
conditionsNeeded == 2
\* delay carried by defaultRequeue (seconds).
defaultRequeueAfter == 10

\* Names of the StatefulSets of the cluster, in list order.
SsetNames == <<"data", "transient">>
NameSet == {SsetNames[i] : i \in 1..Len(SsetNames)}

NoErr == "none"

\* ------------------------------------------------------------ pure helpers
\* sset.PodName: <statefulset name>-<ordinal>.
PodName(ssetName, ordinal) == ssetName \o "-" \o ToString(ordinal)

\* sset.Replicas: the replica count of the StatefulSet spec.
Replicas(statefulSet) == statefulSet.replicas

\* label.IsMasterNodeSet: the StatefulSet carries the master label.
IsMasterNodeSet(statefulSet) == statefulSet.master

\* StatefulSetList.GetByName: the first StatefulSet of the list with that
\* name and TRUE, or a zero StatefulSet and FALSE.
RECURSIVE GetByNameFrom(_, _, _)
GetByNameFrom(list, name, i) ==
    IF i > Len(list) THEN [found |-> FALSE, replicas |-> 0]
    ELSE IF list[i].name = name THEN [found |-> TRUE, replicas |-> list[i].replicas]
    ELSE GetByNameFrom(list, name, i + 1)

GetByName(list, name) == GetByNameFrom(list, name, 1)

\* ssetDownscale.leavingNodeNames: the loop from initialReplicas-1 down to
\* targetReplicas, appending the pod name of each ordinal.
RECURSIVE leavingLoop(_, _, _)
leavingLoop(d, i, acc) ==
    IF i >= d.targetReplicas
    THEN leavingLoop(d, i - 1, Append(acc, PodName(d.name, i)))
    ELSE acc

\* Variant: the loop starts at initialReplicas instead of initialReplicas-1.
ssetLeavingNodeNamesOffByOne(d) ==
    IF d.targetReplicas >= d.initialReplicas THEN <<>>
    ELSE leavingLoop(d, d.initialReplicas, <<>>)

ssetLeavingNodeNames(d) ==
    IF d.targetReplicas >= d.initialReplicas THEN <<>>
    ELSE leavingLoop(d, d.initialReplicas - 1, <<>>)

\* ssetDownscale.isRemoval
\* Variant: any StatefulSet that should have no replica is taken for removed.
isRemovalOnTarget(d) == d.targetReplicas = 0

\* Variant: a StatefulSet that still has replicas is the one taken for removed.
isRemovalWithReplicas(d) == d.initialReplicas /= 0 /\ d.targetReplicas = 0

isRemoval(d) == d.initialReplicas = 0 /\ d.targetReplicas = 0

\* ssetDownscale.isReplicaDecrease
\* Variant: equal counts are taken for a decrease.
isReplicaDecreaseOrEqual(d) == d.targetReplicas <= d.initialReplicas

isReplicaDecrease(d) == d.targetReplicas < d.initialReplicas

\* leavingNodeNames(downscales): concatenation over the downscales.
RECURSIVE leavingNodeNamesFrom(_, _)
leavingNodeNamesFrom(downscales, i) ==
    IF i > Len(downscales) THEN <<>>
    ELSE ssetLeavingNodeNames(downscales[i]) \o leavingNodeNamesFrom(downscales, i + 1)

\* Variant: only the first downscale contributes its leaving nodes.
leavingNodeNamesOfFirst(downscales) ==
    IF downscales = <<>> THEN <<>> ELSE ssetLeavingNodeNames(downscales[1])

leavingNodeNames(downscales) == leavingNodeNamesFrom(downscales, 1)

\* One iteration of the loop of calculateDownscales over actualStatefulSets.
downscaleOf(expectedStatefulSets, actualSset) ==
    LET got == GetByName(expectedStatefulSets, actualSset.name)
        expectedReplicas == IF got.found THEN got.replicas ELSE 0
    IN  [name |-> actualSset.name,
         master |-> actualSset.master,
         initialReplicas |-> Replicas(actualSset),
         targetReplicas |-> expectedReplicas]

\* Variant: an entry is also appended when expected equals actual.
keepDownscaleLoose(d) == d.targetReplicas = 0 \/ d.targetReplicas <= d.initialReplicas

\* Variant: the removal case (0 expected replicas) is left out.
keepDownscaleShrinkOnly(d) == d.targetReplicas < d.initialReplicas

\* the condition of calculateDownscales under which an entry is appended.
keepDownscale(d) == d.targetReplicas = 0 \/ d.targetReplicas < d.initialReplicas

RECURSIVE calculateDownscalesFrom(_, _, _)
calculateDownscalesFrom(expectedStatefulSets, actualStatefulSets, i) ==
    IF i > Len(actualStatefulSets) THEN <<>>
    ELSE LET d == downscaleOf(expectedStatefulSets, actualStatefulSets[i])
             rest == calculateDownscalesFrom(expectedStatefulSets, actualStatefulSets, i + 1)
         IN  IF keepDownscale(d) THEN <<d>> \o rest ELSE rest

calculateDownscales(expectedStatefulSets, actualStatefulSets) ==
    calculateDownscalesFrom(expectedStatefulSets, actualStatefulSets, 1)

\* migration.IsMigratingData: the node still holds shards that have to move.
IsMigratingData(observed, node) == node \in observed

\* The loop of calculatePerformableDownscale over the leaving nodes, highest
\* ordinal first: stop at the first node still migrating, else decrement.
RECURSIVE performableLoop(_, _, _, _)
performableLoop(observed, nodes, i, target) ==
    IF i > Len(nodes) THEN target
    ELSE IF IsMigratingData(observed, nodes[i]) THEN target
    ELSE performableLoop(observed, nodes, i + 1, target - 1)

\* Variant: a node still migrating is skipped instead of ending the loop.
RECURSIVE performableLoopSkipping(_, _, _, _)
performableLoopSkipping(observed, nodes, i, target) ==
    IF i > Len(nodes) THEN target
    ELSE IF IsMigratingData(observed, nodes[i])
         THEN performableLoopSkipping(observed, nodes, i + 1, target)
         ELSE performableLoopSkipping(observed, nodes, i + 1, target - 1)

calculatePerformableDownscaleSkipping(observed, d) ==
    [d EXCEPT !.targetReplicas =
        performableLoopSkipping(observed, ssetLeavingNodeNames(d), 1, d.initialReplicas)]

calculatePerformableDownscale(observed, d) ==
    [d EXCEPT !.targetReplicas =
        performableLoop(observed, ssetLeavingNodeNames(d), 1, d.initialReplicas)]

\* calculatePerformableDownscale marks the cluster as migrating data when it
\* meets a leaving node whose migration is not over.
\* Variant: only the leaving node of the lowest ordinal is looked at.
meetsMigratingNodeAtTarget(observed, d) ==
    IsMigratingData(observed, PodName(d.name, d.targetReplicas))

meetsMigratingNode(observed, d) ==
    \E i \in 1..Len(ssetLeavingNodeNames(d)) :
        IsMigratingData(observed, ssetLeavingNodeNames(d)[i])

\* reconcile.AvailableElasticsearchNodes: a pod is ready when both its
\* ContainersReady and PodReady conditions are true.
conditionsTrue(pod) ==
    (IF pod.containersReady THEN 1 ELSE 0) + (IF pod.podReady THEN 1 ELSE 0)

\* Variant: one true condition is enough.
isAvailableWithOne(pod) == conditionsTrue(pod) >= 1

isAvailable(pod) == conditionsTrue(pod) = conditionsNeeded

\* label.FilterMasterNodePods then AvailableElasticsearchNodes, over a pod list.
RECURSIVE AvailableElasticsearchNodes(_)
AvailableElasticsearchNodes(pods) ==
    IF pods = <<>> THEN <<>>
    ELSE IF isAvailable(Head(pods))
         THEN <<Head(pods)>> \o AvailableElasticsearchNodes(Tail(pods))
         ELSE AvailableElasticsearchNodes(Tail(pods))

\* zen1.AtLeastOneNodeCompatibleWithZen1: some StatefulSet runs a version
\* that still uses the legacy protocol (before 7).
AtLeastOneNodeCompatibleWithZen1(statefulSets) ==
    \E i \in 1..Len(statefulSets) : statefulSets[i].version < 7

\* StatefulSetList.PodReconciliationDone: every StatefulSet of the list has
\* exactly the pods its spec asks for.
PodReconciliationDone(statefulSets, pods) ==
    \A i \in 1..Len(statefulSets) :
        pods[statefulSets[i].name] = Replicas(statefulSets[i])

\* Majority of n master-eligible nodes.
Quorum(n) == IF n = 0 THEN 0 ELSE (n \div 2) + 1

\* ---------------------------------------------------------------- results
emptyResults == [requeue |-> FALSE, requeueAfter |-> 0, err |-> NoErr]

\* Results.WithResult(defaultRequeue)
WithRequeue(res) == [res EXCEPT !.requeue = TRUE, !.requeueAfter = defaultRequeueAfter]

\* Results.WithError(err)
WithError(res, e) == [res EXCEPT !.err = e]

\* ------------------------------------------------------------------ state
VARIABLES
    expected,          \* expectedStatefulSets: list of [name, replicas]
    store,             \* StatefulSets in the Kubernetes API, by name
    podCount,          \* pods that exist for each StatefulSet
    observed,          \* observedState: nodes whose data migration is not over
    mmn,               \* discovery.zen.minimum_master_nodes in force
    phase,             \* phase of the cluster status
    events,            \* events recorded in the reconcile state
    pc,                \* position of the pass
    actual,            \* actualStatefulSets given to the pass
    downscales,        \* downscales computed by the pass
    leavingNodes,      \* leavingNodes computed by the pass
    idx,               \* index of the downscale being attempted
    performable,       \* downscale given to doDownscale
    shouldRequeue,     \* requeue flag that attemptDownscale returns with doDownscale
    results,           \* reconciler.Results of the pass
    calls,             \* calls issued by the pass, in order
    startMmn,          \* minimum_master_nodes in force when the pass started
    lastRun            \* the previous pass, when nothing has changed since

\* The other reconcilers of the cluster (packages pdb and remotecluster).
VARIABLES
    pdb,               \* the default PodDisruptionBudget in the Kubernetes API
    pdbRun,            \* the last pdb.Reconcile, when nothing has changed since
    es,                \* the Elasticsearch resource: remote clusters, annotation
    enterprise,        \* what licenseChecker.EnterpriseFeaturesEnabled answers
    rcRun,             \* the last remotecluster.UpdateSettings, likewise
    budgetInput,       \* the arguments buildPDBSpec is called with
    budgetSpec         \* the PodDisruptionBudgetSpec it returned

downscaleVars == <<expected, store, podCount, observed, mmn, phase, events, pc,
                   actual, downscales, leavingNodes, idx, performable,
                   shouldRequeue, results, calls, startMmn, lastRun>>

pdbVars == <<pdb, pdbRun>>

remoteVars == <<es, enterprise, rcRun>>

budgetVars == <<budgetInput, budgetSpec>>

otherVars == <<pdbVars, remoteVars, budgetVars>>

vars == <<downscaleVars, pdbVars, remoteVars, budgetVars>>

\* A label that a map does not hold.
Nil == "nil"

\* Labels: a value, or Nil, for each key.
LabelKeys == {"cluster-name", "team"}
noLabels == [k \in LabelKeys |-> Nil]

\* The zero value of v1beta1.PodDisruptionBudgetSpec: each field is a
\* pointer, the empty set when nil and the set of what it points to otherwise.
zeroSpec == [selector |-> {}, minAvailable |-> {}, maxUnavailable |-> {}]

\* No PodDisruptionBudget: also the zero value that Get leaves untouched.
NoPDB == [exists |-> FALSE, labels |-> noLabels, spec |-> zeroSpec]

\* Reconcile has not run, or the PodDisruptionBudget has changed since.
noPdbRun == [ran |-> FALSE, disabled |-> FALSE, expected |-> NoPDB,
             before |-> NoPDB, calls |-> <<>>, err |-> NoErr]

\* UpdateSettings has not run, or the resource or the license has changed since.
noRemoteRun == [ran |-> FALSE, follows |-> FALSE, previousCalls |-> 0,
                before |-> [present |-> FALSE, hashes |-> <<>>],
                event |-> FALSE, calls |-> <<>>, err |-> NoErr]

\* An Elasticsearch resource without remote clusters, annotated with none.
esAtRest == [remoteClusters |-> <<>>,
             annotation |-> [present |-> TRUE, hashes |-> <<>>]]

\* buildPDBSpec has not been called: a green cluster without StatefulSets.
noBudgetInput == [health |-> "green", statefulSets |-> <<>>]

\* The PodDisruptionBudget is left alone.
PdbAtRest == pdb = NoPDB /\ pdbRun = noPdbRun

\* The remote clusters are left alone.
RemoteAtRest == es = esAtRest /\ enterprise = FALSE /\ rcRun = noRemoteRun

\* buildPDBSpec is not called.
BudgetAtRest == budgetInput = noBudgetInput /\ budgetSpec = zeroSpec

OtherAtRest == PdbAtRest /\ RemoteAtRest /\ BudgetAtRest

envVars == <<store, podCount, observed, mmn>>

Call(op, name, nodes, val, ok) ==
    [op |-> op, sset |-> name, nodes |-> nodes, val |-> val, ok |-> ok,
     pods |-> <<>>]

\* sset.GetActualPodsForCluster: the call, with the master pods it returned.
PodsCall(name, pods, ready, ok) ==
    [op |-> "GetActualPodsForCluster", sset |-> name, nodes |-> <<>>,
     val |-> IF ok THEN ready ELSE 0, ok |-> ok,
     pods |-> IF ok THEN pods ELSE <<>>]

\* The calls of a pass that are kept once it has returned: the exclusion
\* scheduling and the changes of StatefulSets.
isKeptCall(c) == c.op \in {"MigrateData", "Update", "Delete"}

\* No pass has run, or the cluster has changed since the last one.
noRun == [ran |-> FALSE, actual |-> <<>>, observed |-> {},
          results |-> emptyResults, calls |-> <<>>]

noDownscale == [name |-> "", master |-> FALSE, initialReplicas |-> 0, targetReplicas |-> 0]

\* The StatefulSets that exist in the API, as the list handed to the pass.
RECURSIVE ActualListFrom(_, _)
ActualListFrom(st, i) ==
    IF i > Len(SsetNames) THEN <<>>
    ELSE LET n == SsetNames[i]
         IN  (IF st[n].exists
              THEN <<[name |-> n, replicas |-> st[n].replicas,
                      master |-> st[n].master, version |-> st[n].version]>>
              ELSE <<>>) \o ActualListFrom(st, i + 1)

ActualList(st) == ActualListFrom(st, 1)

\* Master-eligible replicas asked for by a list of StatefulSets.
RECURSIVE MasterReplicasFrom(_, _)
MasterReplicasFrom(list, i) ==
    IF i > Len(list) THEN 0
    ELSE (IF IsMasterNodeSet(list[i]) THEN Replicas(list[i]) ELSE 0)
         + MasterReplicasFrom(list, i + 1)

MasterReplicas(list) == MasterReplicasFrom(list, 1)

\* Pods of the master-eligible StatefulSets that exist.
RECURSIVE MasterPodsFrom(_, _, _)
MasterPodsFrom(st, pods, i) ==
    IF i > Len(SsetNames) THEN 0
    ELSE (IF st[SsetNames[i]].master THEN pods[SsetNames[i]] ELSE 0)
         + MasterPodsFrom(st, pods, i + 1)

MasterPods(st, pods) == MasterPodsFrom(st, pods, 1)

\* A pod list with b pods having both conditions true, c pods with only
\* ContainersReady true, and the other pods with no condition true.
PodList(total, b, c) ==
    [k \in 1..total |->
        [containersReady |-> k <= b + c, podReady |-> k <= b]]

\* ---------------------------------------------------------- initial states
absentSset == [exists |-> FALSE, replicas |-> 0, master |-> FALSE, version |-> 7]

SsetStates(maxReplicas) ==
    {absentSset} \cup
    [exists : {TRUE}, replicas : 0..maxReplicas, master : BOOLEAN, version : {6, 7}]

\* The expected list: the names asked for (want[n] >= 0), in list order.
RECURSIVE ExpectedListFrom(_, _)
ExpectedListFrom(want, i) ==
    IF i > Len(SsetNames) THEN <<>>
    ELSE (IF want[SsetNames[i]] >= 0
          THEN <<[name |-> SsetNames[i], replicas |-> want[SsetNames[i]]]>>
          ELSE <<>>) \o ExpectedListFrom(want, i + 1)

ExpectedList(want) == ExpectedListFrom(want, 1)

SeqToSet(seq) == {seq[i] : i \in 1..Len(seq)}

InitPass ==
    /\ podCount = [n \in NameSet |-> store[n].replicas]
    /\ observed \in SUBSET SeqToSet(leavingNodeNames(calculateDownscales(expected, ActualList(store))))
    /\ mmn = Quorum(MasterReplicas(ActualList(store)))
    /\ phase = "operational"
    /\ events = {}
    /\ pc = "idle"
    /\ actual = <<>>
    /\ downscales = <<>>
    /\ leavingNodes = <<>>
    /\ idx = 0
    /\ performable = noDownscale
    /\ shouldRequeue = FALSE
    /\ results = emptyResults
    /\ calls = <<>>
    /\ startMmn = mmn
    /\ lastRun = noRun

InitRest == InitPass /\ OtherAtRest

\* No StatefulSet exists and none is expected: no pass has anything to do.
DownscaleAtRest ==
    /\ store = [n \in NameSet |-> absentSset]
    /\ expected = <<>>
    /\ InitPass

\* Any expected and actual topology within the bounds.
MaxOf(n, maxData, maxTransient) == IF n = SsetNames[1] THEN maxData ELSE maxTransient

\* hasCorrectNodeRoles: the expected topology has at least one master node.
seenMaster(want, st) ==
    \E n \in NameSet : st[n].exists /\ st[n].master /\ want[n] > 0

InitWithin(maxData, maxTransient) ==
    /\ store \in [NameSet -> SsetStates(maxData)]
    /\ \A n \in NameSet : store[n].replicas <= MaxOf(n, maxData, maxTransient)
    /\ \E want \in [NameSet -> (-1)..maxData] :
          /\ \A n \in NameSet : want[n] <= MaxOf(n, maxData, maxTransient)
          /\ seenMaster(want, store)
          /\ expected = ExpectedList(want)
    /\ InitRest

InitBounded == InitWithin(MaxReplicas, MaxTransient)

\* The end-to-end scenarios: "data" has 5 replicas and 3 are expected;
\* "transient" is not expected, and is absent or has 0 replicas.
InitScenario ==
    /\ \E m \in BOOLEAN, v \in {6, 7}, t \in SsetStates(0) :
          store = [n \in NameSet |->
                     IF n = "data"
                     THEN [exists |-> TRUE, replicas |-> 5, master |-> m, version |-> v]
                     ELSE t]
    /\ expected = <<[name |-> "data", replicas |-> 3]>>
    /\ InitRest

Init == InitBounded \/ InitScenario

\* The inputs of the runs made twice in a row, of the passes during which a
\* StatefulSet vanishes, and of the passes whose listed pods are kept.
InitTwice == InitWithin(MaxReplicasTwice, MaxTransientTwice)

\* ------------------------------------------------------------ control flow
\* HandleDownscale after noOnGoingDeletion: an error or a guard that does
\* not hold ends the pass.
\* Variant: the pass goes on when the guard reports false.
afterGuardIgnoringGuard(failed, canProceed) ==
    IF failed THEN "done" ELSE "migrate"

afterGuard(failed, canProceed) ==
    IF failed THEN "done"
    ELSE IF ~canProceed THEN "done"
    ELSE "migrate"

\* "if err != nil { return err }" after a call: the pass ends on an error.
\* Variant: the error of the call is dropped.
afterCallIgnoringError(ok, next) == next

afterCall(ok, next) == IF ok THEN next ELSE "done"

\* The loop of HandleDownscale over the downscales: the next one, or return.
\* Variant: the pass returns after the first downscale it has attempted.
nextAttemptReturning(i, n) == IF i > n \/ i > 1 THEN "done" ELSE "attempt"

nextAttempt(i, n) == IF i > n THEN "done" ELSE "attempt"

\* attemptDownscale: requeue when the performable downscale is not the whole one.
\* Variant: the performable target is compared with the initial replicas.
requeueNeededAgainstInitial(p, d) == p.targetReplicas /= d.initialReplicas

\* Variant: no requeue is asked for after a downscale that was performed.
requeueNeededNever(p, d) == FALSE

requeueNeeded(p, d) == p.targetReplicas /= d.targetReplicas

\* updateZenSettingsForDownscale: the nodes given to
\* zen2.AddToVotingConfigExclusions are the leaving nodes of the downscale
\* doDownscale received (the performable one p, not the whole one d).
\* Variant: the leaving nodes of the whole downscale are given.
votingExclusionNodesOfWhole(p, d) == ssetLeavingNodeNames(d)

votingExclusionNodes(p, d) == ssetLeavingNodeNames(p)

\* The outcomes of k8sClient.Update and k8sClient.Delete for a StatefulSet:
\* the call may succeed or fail, and fails (not found) when the StatefulSet
\* does not exist any more.
clientOutcomes(st, name) == IF st[name].exists THEN BOOLEAN ELSE {FALSE}

\* ----------------------------------------------------------------- actions
\* HandleDownscale, up to the computation of downscales and leavingNodes.
HandleDownscale ==
    /\ pc = "idle"
    /\ actual' = ActualList(store)
    /\ startMmn' = mmn
    /\ idx' = 0
    /\ performable' = noDownscale
    /\ shouldRequeue' = FALSE
    /\ events' = {}
    /\ phase' = "operational"
    /\ \E failed \in BOOLEAN :
         LET canProceed == PodReconciliationDone(actual', podCount)
         IN  /\ calls' = <<Call("PodReconciliationDone", "", <<>>,
                                IF canProceed THEN 1 ELSE 0, ~failed)>>
             /\ pc' = afterGuard(failed, canProceed)
             /\ results' = IF failed THEN WithError(emptyResults, "guard")
                           ELSE IF ~canProceed THEN WithRequeue(emptyResults)
                           ELSE emptyResults
             /\ downscales' = IF pc' = "migrate"
                              THEN calculateDownscales(expected, actual') ELSE <<>>
             /\ leavingNodes' = leavingNodeNames(downscales')
    /\ UNCHANGED <<expected, lastRun>>
    /\ UNCHANGED envVars
    /\ UNCHANGED otherVars

\* scheduleDataMigrations: migration.MigrateData with all leaving nodes.
scheduleDataMigrations ==
    /\ pc = "migrate"
    /\ \E ok \in BOOLEAN :
         /\ calls' = Append(calls, Call("MigrateData", "", leavingNodes, 0, ok))
         /\ results' = IF ok THEN results ELSE WithError(results, "migrate")
         /\ pc' = afterCall(ok, nextAttempt(1, Len(downscales)))
    /\ idx' = 1
    /\ UNCHANGED <<expected, store, podCount, observed, mmn, phase, events, actual, downscales, leavingNodes,
                   performable, shouldRequeue, startMmn, lastRun>>
    /\ UNCHANGED otherVars

\* attemptDownscale, case isRemoval: the StatefulSet is deleted.
attemptRemoval ==
    /\ \E ok \in clientOutcomes(store, downscales[idx].name) :
         /\ calls' = Append(calls, Call("Delete", downscales[idx].name, <<>>, 0, ok))
         /\ store' = IF ok THEN [store EXCEPT ![downscales[idx].name] = absentSset]
                     ELSE store
         /\ results' = IF ok THEN results ELSE WithError(results, "delete")
         /\ pc' = afterCall(ok, nextAttempt(idx + 1, Len(downscales)))
    /\ idx' = idx + 1
    /\ UNCHANGED <<podCount, observed, mmn, phase, performable, shouldRequeue>>

\* attemptDownscale, case isReplicaDecrease: the performable downscale is
\* computed; with no node to remove the pass asks for a requeue, else
\* doDownscale is entered.
attemptReplicaDecrease ==
    /\ LET d == downscales[idx]
           p == calculatePerformableDownscale(observed, d)
       IN  /\ phase' = IF meetsMigratingNode(observed, d) THEN "migrating" ELSE phase
           /\ IF ~isReplicaDecrease(p)
              THEN /\ results' = WithRequeue(results)
                   /\ idx' = idx + 1
                   /\ pc' = nextAttempt(idx + 1, Len(downscales))
                   /\ UNCHANGED <<performable, shouldRequeue>>
              ELSE /\ performable' = p
                   /\ shouldRequeue' = requeueNeeded(p, d)
                   /\ pc' = "zen"
                   /\ UNCHANGED <<results, idx>>
    /\ UNCHANGED calls
    /\ UNCHANGED envVars

\* attemptDownscale, default case: nothing to do.
attemptNothing ==
    /\ idx' = idx + 1
    /\ pc' = nextAttempt(idx + 1, Len(downscales))
    /\ UNCHANGED <<phase, performable, shouldRequeue, results, calls>>
    /\ UNCHANGED envVars

\* attemptDownscale for the downscale at idx (the body of the loop of
\* HandleDownscale).
attemptDownscale ==
    /\ pc = "attempt"
    /\ IF isRemoval(downscales[idx]) THEN attemptRemoval
       ELSE IF isReplicaDecrease(downscales[idx]) THEN attemptReplicaDecrease
       ELSE attemptNothing
    /\ UNCHANGED <<expected, events, actual, downscales, leavingNodes,
                   startMmn, lastRun>>
    /\ UNCHANGED otherVars

\* updateZenSettingsForDownscale up to the zen1 decision of
\* maybeUpdateZen1ForDownscale: nothing for a StatefulSet without masters;
\* with a zen1 compatible StatefulSet, the pods are listed and the ready
\* masters counted; keepPods tells whether the pods that were listed are
\* kept with the call.
zen1Decision(keepPods) ==
    /\ pc = "zen"
    /\ IF ~IsMasterNodeSet(performable)
       THEN /\ pc' = "update"
            /\ UNCHANGED <<calls, results, events>>
       ELSE IF ~AtLeastOneNodeCompatibleWithZen1(actual)
       THEN /\ pc' = "zen2"
            /\ UNCHANGED <<calls, results, events>>
       ELSE \E ok \in BOOLEAN :
              LET total == MasterPods(store, podCount)
              IN  \E b \in 0..total : \E c \in 0..(total - b) :
                    LET mastersReady == AvailableElasticsearchNodes(PodList(total, b, c))
                        two == Len(mastersReady) = TwoMasters
                    IN  /\ calls' = Append(calls,
                              PodsCall(performable.name,
                                       IF keepPods THEN PodList(total, b, c) ELSE <<>>,
                                       Len(mastersReady), ok))
                        /\ results' = IF ok THEN results ELSE WithError(results, "pods")
                        /\ events' = IF ok /\ two
                                     THEN events \cup {"Downscaling from 2 to 1 master nodes"}
                                     ELSE events
                        /\ pc' = afterCall(ok, IF two THEN "zen1" ELSE "zen2")
    /\ UNCHANGED <<expected, phase, actual, downscales, leavingNodes, idx,
                   performable, shouldRequeue, startMmn, lastRun>>
    /\ UNCHANGED envVars
    /\ UNCHANGED otherVars

maybeUpdateZen1ForDownscale == zen1Decision(FALSE)

\* The same, the listed pods being kept with the call.
maybeUpdateZen1ForDownscaleRecorded == zen1Decision(TRUE)

\* zen1.UpdateMinimumMasterNodesTo(1), the last call of
\* maybeUpdateZen1ForDownscale.
UpdateMinimumMasterNodesTo ==
    /\ pc = "zen1"
    /\ \E ok \in BOOLEAN :
         /\ calls' = Append(calls, Call("UpdateMinimumMasterNodesTo", performable.name,
                                        <<>>, minimumMasterNodes, ok))
         /\ mmn' = IF ok THEN minimumMasterNodes ELSE mmn
         /\ results' = IF ok THEN results ELSE WithError(results, "zen1")
         /\ pc' = afterCall(ok, "zen2")
    /\ UNCHANGED <<expected, store, podCount, observed, phase, events, actual,
                   downscales, leavingNodes, idx, performable, shouldRequeue, startMmn,
                   lastRun>>
    /\ UNCHANGED otherVars

\* zen2.AddToVotingConfigExclusions with the leaving nodes of the downscale
\* being done, the last call of updateZenSettingsForDownscale.
AddToVotingConfigExclusions ==
    /\ pc = "zen2"
    /\ \E ok \in BOOLEAN :
         LET nodes == votingExclusionNodes(performable, downscales[idx])
         IN  /\ calls' = Append(calls, Call("AddToVotingConfigExclusions",
                                            performable.name, nodes, 0, ok))
             /\ results' = IF ok THEN results ELSE WithError(results, "zen2")
             /\ pc' = afterCall(ok, "update")
    /\ UNCHANGED <<expected, store, podCount, observed, mmn, phase, events, actual, downscales, leavingNodes,
                   idx, performable, shouldRequeue, startMmn, lastRun>>
    /\ UNCHANGED otherVars

\* The calls of doDownscale after updateZenSettingsForDownscale: the Update
\* of the StatefulSet and, when it has succeeded, ExpectGeneration.
\* Variant: the generation is expected before the Update is tried.
updateCallsExpectingFirst(p, ok) ==
    <<Call("ExpectGeneration", p.name, <<>>, 0, TRUE),
      Call("Update", p.name, <<>>, p.targetReplicas, ok)>>

updateCalls(p, ok) ==
    IF ok
    THEN <<Call("Update", p.name, <<>>, p.targetReplicas, TRUE),
           Call("ExpectGeneration", p.name, <<>>, 0, TRUE)>>
    ELSE <<Call("Update", p.name, <<>>, p.targetReplicas, FALSE)>>

\* doDownscale after updateZenSettingsForDownscale: the replicas of the
\* StatefulSet are updated, and the generation is expected.
doDownscale ==
    /\ pc = "update"
    /\ \E ok \in clientOutcomes(store, performable.name) :
         /\ calls' = calls \o updateCalls(performable, ok)
         /\ store' = IF ok
                     THEN [store EXCEPT ![performable.name].replicas = performable.targetReplicas]
                     ELSE store
         /\ results' = IF ~ok THEN WithError(results, "update")
                       ELSE IF shouldRequeue THEN WithRequeue(results)
                       ELSE results
         /\ pc' = afterCall(ok, nextAttempt(idx + 1, Len(downscales)))
    /\ idx' = idx + 1
    /\ UNCHANGED <<expected, podCount, observed, mmn, phase, events, actual, downscales,
                   leavingNodes, performable, shouldRequeue, startMmn, lastRun>>
    /\ UNCHANGED otherVars

\* ------------------------------------------------------------- environment
passVars == <<phase, events, pc, actual, downscales, leavingNodes, idx,
              performable, shouldRequeue, results, calls, startMmn>>

\* The pass has returned: its results are consumed by the caller, which
\* will run HandleDownscale again at the next reconciliation; `run` is what
\* is kept of the pass.
returnPass(run) ==
    /\ pc = "done"
    /\ pc' = "idle"
    /\ actual' = <<>>
    /\ downscales' = <<>>
    /\ leavingNodes' = <<>>
    /\ idx' = 0
    /\ performable' = noDownscale
    /\ shouldRequeue' = FALSE
    /\ results' = emptyResults
    /\ calls' = <<>>
    /\ events' = {}
    /\ phase' = "operational"
    /\ startMmn' = mmn
    /\ lastRun' = run
    /\ UNCHANGED expected
    /\ UNCHANGED envVars
    /\ UNCHANGED otherVars

\* The pass returns and nothing is kept of it.
passReturned == returnPass(noRun)

\* The pass returns; its inputs, its results and its calls are kept for the
\* comparison with the pass that follows it.
passReturnedRecorded ==
    returnPass([ran |-> TRUE, actual |-> actual, observed |-> observed,
                results |-> results, calls |-> SelectSeq(calls, isKeptCall)])

\* Between two passes the StatefulSet controller creates and deletes pods
\* until every StatefulSet has the pods its spec asks for.
PodsReconciled ==
    /\ pc = "idle"
    /\ podCount /= [n \in NameSet |-> store[n].replicas]
    /\ podCount' = [n \in NameSet |-> store[n].replicas]
    /\ lastRun' = noRun
    /\ UNCHANGED <<expected, store, observed, mmn>>
    /\ UNCHANGED passVars
    /\ UNCHANGED otherVars

\* Between two passes Elasticsearch finishes moving the shards of a node.
MigrationOver ==
    /\ pc = "idle"
    /\ \E node \in observed : observed' = observed \ {node}
    /\ lastRun' = noRun
    /\ UNCHANGED <<expected, store, podCount, mmn>>
    /\ UNCHANGED passVars
    /\ UNCHANGED otherVars

Next ==
    \/ HandleDownscale
    \/ scheduleDataMigrations
    \/ attemptDownscale
    \/ maybeUpdateZen1ForDownscale
    \/ UpdateMinimumMasterNodesTo
    \/ AddToVotingConfigExclusions
    \/ doDownscale
    \/ passReturned
    \/ PodsReconciled
    \/ MigrationOver

Spec == Init /\ [][Next]_vars

\* HandleDownscale run again and again, each pass being kept until the next
\* one has returned or the cluster has changed.
NextTwice ==
    \/ HandleDownscale
    \/ scheduleDataMigrations
    \/ attemptDownscale
    \/ maybeUpdateZen1ForDownscale
    \/ UpdateMinimumMasterNodesTo
    \/ AddToVotingConfigExclusions
    \/ doDownscale
    \/ passReturnedRecorded
    \/ PodsReconciled
    \/ MigrationOver

SpecTwice == InitTwice /\ [][NextTwice]_vars

\* HandleDownscale run again and again, the pods listed by
\* maybeUpdateZen1ForDownscale being kept with the calls of the pass.
NextPods ==
    \/ HandleDownscale
    \/ scheduleDataMigrations
    \/ attemptDownscale
    \/ maybeUpdateZen1ForDownscaleRecorded
    \/ UpdateMinimumMasterNodesTo
    \/ AddToVotingConfigExclusions
    \/ doDownscale
    \/ passReturned
    \/ PodsReconciled
    \/ MigrationOver

SpecPods == InitTwice /\ [][NextPods]_vars

\* The passes under fairness: a pass that has started runs to its end (the
\* code of HandleDownscale is sequential), the caller invokes HandleDownscale
\* again after each pass, and between passes the pods get reconciled and
\* the migrations come to their end.
SpecLive ==
    /\ InitTwice
    /\ [][Next]_vars
    /\ WF_vars(HandleDownscale)
    /\ WF_vars(scheduleDataMigrations)
    /\ WF_vars(attemptDownscale)
    /\ WF_vars(maybeUpdateZen1ForDownscale)
    /\ WF_vars(UpdateMinimumMasterNodesTo)
    /\ WF_vars(AddToVotingConfigExclusions)
    /\ WF_vars(doDownscale)
    /\ WF_vars(passReturned)
    /\ SF_vars(PodsReconciled)
    /\ SF_vars(MigrationOver)

\* While a pass is running, something else than the operator deletes a
\* StatefulSet.
StatefulSetVanishes ==
    /\ pc \in {"migrate", "attempt", "zen", "zen1", "zen2", "update"}
    /\ \E n \in NameSet :
          /\ store[n].exists
          /\ store' = [store EXCEPT ![n] = absentSset]
    /\ UNCHANGED <<expected, podCount, observed, mmn, lastRun>>
    /\ UNCHANGED passVars
    /\ UNCHANGED otherVars

\* HandleDownscale run again and again while StatefulSets may vanish.
NextVanish ==
    \/ HandleDownscale
    \/ scheduleDataMigrations
    \/ attemptDownscale
    \/ maybeUpdateZen1ForDownscale
    \/ UpdateMinimumMasterNodesTo
    \/ AddToVotingConfigExclusions
    \/ doDownscale
    \/ passReturned
    \/ PodsReconciled
    \/ MigrationOver
    \/ StatefulSetVanishes

SpecVanish == InitTwice /\ [][NextVanish]_vars

\* ------------------------------------------------------------- properties
TypeOK ==
    /\ pc \in {"idle", "migrate", "attempt", "zen", "zen1", "zen2", "update", "done"}
    /\ \A n \in NameSet : store[n].replicas >= 0 /\ podCount[n] >= 0
    /\ results.err \in {NoErr, "guard", "migrate", "delete", "pods", "zen1", "zen2", "update"}
    /\ idx \in 0..(Len(downscales) + 1)

\* The guard has been called in this pass and has returned true.
GuardPassed == calls /= <<>> /\ calls[1].ok /\ calls[1].val = 1

\* The calls of the pass with the given operation.
CallsOf(op) == {k \in 1..Len(calls) : calls[k].op = op}

ZenOps == {"GetActualPodsForCluster", "UpdateMinimumMasterNodesTo",
           "AddToVotingConfigExclusions"}

\* The StatefulSet of the pass with the given name is master-eligible.
MasterInActual(name) ==
    \E i \in 1..Len(actual) : actual[i].name = name /\ actual[i].master

\* C1: before the replica Update of a master-eligible StatefulSet is issued,
\* its zen settings update has succeeded (the pod listing and the
\* minimum_master_nodes update when they apply, then the voting exclusions,
\* in that order); after a failed zen call for a StatefulSet, no Update is
\* issued for it in the pass.
C1_ZenBeforeReplicas ==
    \A k \in CallsOf("Update") :
        MasterInActual(calls[k].sset) =>
            /\ \A j \in 1..Len(calls) :
                 (calls[j].sset = calls[k].sset /\ calls[j].op \in ZenOps) =>
                     (calls[j].ok /\ j < k)
            /\ \E j \in 1..(k - 1) :
                 /\ calls[j].op = "AddToVotingConfigExclusions"
                 /\ calls[j].sset = calls[k].sset
                 /\ calls[j].ok
                 /\ AtLeastOneNodeCompatibleWithZen1(actual) =>
                      \E i \in 1..(j - 1) :
                         /\ calls[i].op = "GetActualPodsForCluster"
                         /\ calls[i].sset = calls[k].sset
                         /\ calls[i].ok
                         /\ calls[i].val = TwoMasters =>
                              \E m \in (i + 1)..(j - 1) :
                                 /\ calls[m].op = "UpdateMinimumMasterNodesTo"
                                 /\ calls[m].sset = calls[k].sset
                                 /\ calls[m].ok

\* A master-eligible StatefulSet has been updated after the three zen calls.
C1_Witness ==
    \E k \in CallsOf("Update") :
        /\ MasterInActual(calls[k].sset)
        /\ calls[k].ok
        /\ \E m \in CallsOf("UpdateMinimumMasterNodesTo") : calls[m].sset = calls[k].sset

\* The downscale of the pass for the StatefulSet with the given name.
DownscaleOfName(name) ==
    CHOOSE d \in SeqToSet(downscales) : d.name = name

\* Ordinals of the leaving nodes of a downscale whose migration is not over.
BlockedOrdinals(d) ==
    {i \in d.targetReplicas..(d.initialReplicas - 1) : PodName(d.name, i) \in observed}

\* C2: the replica count written by an Update is greater than the ordinal
\* of every leaving node of that StatefulSet whose migration is not over;
\* when the pass ends such a node, and every node below it, still belongs to
\* the replicas of its StatefulSet.
C2_MigrationGating ==
    /\ \A k \in CallsOf("Update") :
         \A i \in BlockedOrdinals(DownscaleOfName(calls[k].sset)) : calls[k].val > i
    /\ (pc = "done" /\ GuardPassed) =>
         \A k \in 1..Len(downscales) :
            \A i \in BlockedOrdinals(downscales[k]) :
               /\ store[downscales[k].name].exists
               /\ store[downscales[k].name].replicas > i

\* An Update has removed a migrated node and kept a node that is blocked.
C2_Witness ==
    \E k \in CallsOf("Update") :
        /\ calls[k].ok
        /\ BlockedOrdinals(DownscaleOfName(calls[k].sset)) /= {}
        /\ store[calls[k].sset].replicas = calls[k].val

\* No expected StatefulSet is missing or has to grow: the pass only shrinks.
NothingToGrow ==
    \A e \in SeqToSet(expected) :
        \E i \in 1..Len(actual) :
            actual[i].name = e.name /\ actual[i].replicas >= e.replicas

\* C3: with a zen1 compatible StatefulSet, a pass that starts with
\* minimum_master_nodes at the quorum of the master-eligible replicas ends
\* with at least minimum_master_nodes master-eligible replicas (stated for
\* the passes in which no StatefulSet has to grow).
C3_MastersCanFormCluster ==
    (/\ pc = "done"
     /\ GuardPassed
     /\ NothingToGrow
     /\ AtLeastOneNodeCompatibleWithZen1(actual)
     /\ startMmn = Quorum(MasterReplicas(actual)))
    => MasterReplicas(ActualList(store)) >= mmn

\* C4: a pass reduces the master-eligible replicas by at most one.
C4_OneMasterPerPass ==
    (pc = "done" /\ GuardPassed)
    => MasterReplicas(actual) - MasterReplicas(ActualList(store)) <= 1

\* C5: when the guard reports false the pass ends at once, asking for a
\* requeue with the default delay and carrying no error; when the guard call
\* fails the pass ends at once with that error; in both cases the guard is
\* the only call of the pass, and no StatefulSet nor setting has changed.
C5_GuardDefersPass ==
    (calls /= <<>> /\ ~GuardPassed) =>
        /\ pc = "done"
        /\ Len(calls) = 1
        /\ calls[1].op = "PodReconciliationDone"
        /\ ActualList(store) = actual
        /\ mmn = startMmn
        /\ phase = "operational"
        /\ events = {}
        /\ IF calls[1].ok
           THEN results = [requeue |-> TRUE, requeueAfter |-> defaultRequeueAfter,
                           err |-> NoErr]
           ELSE results = [requeue |-> FALSE, requeueAfter |-> 0, err |-> "guard"]

\* A pass has ended on a guard that reported false while downscales were due.
C5_Witness ==
    /\ pc = "done"
    /\ calls /= <<>>
    /\ calls[1].ok
    /\ calls[1].val = 0
    /\ calculateDownscales(expected, actual) /= <<>>

\* A pass has ended on a guard call that failed.
C5_WitnessError ==
    /\ pc = "done"
    /\ calls /= <<>>
    /\ ~calls[1].ok
    /\ calculateDownscales(expected, actual) /= <<>>

\* The StatefulSet with that name is in the expected list.
InExpected(name) == \E e \in SeqToSet(expected) : e.name = name

\* Its expected replica count (the names of the expected list are distinct).
ExpectedReplicasOf(name) ==
    (CHOOSE e \in SeqToSet(expected) : e.name = name).replicas

\* The downscales of the pass with that name.
IntentsOf(name) == {k \in 1..Len(downscales) : downscales[k].name = name}

\* Every downscale is the one of an actual StatefulSet, in list order.
IntentsFromActual ==
    /\ \A k \in 1..Len(downscales) :
         \E i \in 1..Len(actual) :
            /\ actual[i].name = downscales[k].name
            /\ downscales[k].initialReplicas = actual[i].replicas
    /\ \A j, k \in 1..Len(downscales) :
         j < k => \E h, i \in 1..Len(actual) :
                     /\ h < i
                     /\ actual[h].name = downscales[j].name
                     /\ actual[i].name = downscales[k].name

\* C6 as claimed: exactly one intent for an actual StatefulSet that is absent
\* from expected (target 0) or whose expected count is lower than its actual
\* count (target = expected count), and no intent for an actual StatefulSet
\* that is in expected with an expected count equal or greater than its
\* actual count.
C6_DifferAsClaimed ==
    GuardPassed =>
        /\ IntentsFromActual
        /\ \A i \in 1..Len(actual) :
             LET n == actual[i].name
             IN  IF ~InExpected(n)
                 THEN /\ Cardinality(IntentsOf(n)) = 1
                      /\ \A k \in IntentsOf(n) : downscales[k].targetReplicas = 0
                 ELSE IF ExpectedReplicasOf(n) < actual[i].replicas
                 THEN /\ Cardinality(IntentsOf(n)) = 1
                      /\ \A k \in IntentsOf(n) :
                           downscales[k].targetReplicas = ExpectedReplicasOf(n)
                 ELSE IntentsOf(n) = {}

\* C6 (amended): exactly one intent for an actual StatefulSet that is absent
\* from expected or expected with 0 replicas (target 0, whatever its actual
\* count, 0 included), or whose expected count is lower than its actual count
\* (target = expected count); no intent for an actual StatefulSet that is in
\* expected with a positive expected count equal or greater than its actual
\* count.
C6_Differ ==
    GuardPassed =>
        /\ IntentsFromActual
        /\ \A i \in 1..Len(actual) :
             LET n == actual[i].name
                 target == IF InExpected(n) THEN ExpectedReplicasOf(n) ELSE 0
             IN  IF target = 0 \/ target < actual[i].replicas
                 THEN /\ Cardinality(IntentsOf(n)) = 1
                      /\ \A k \in IntentsOf(n) : downscales[k].targetReplicas = target
                 ELSE IntentsOf(n) = {}

\* The Differ has produced an intent for a StatefulSet that is expected with
\* 0 replicas and has 0 replicas, and none for another that does not shrink.
C6_Witness ==
    /\ GuardPassed
    /\ \E i \in 1..Len(actual) :
         /\ InExpected(actual[i].name)
         /\ ExpectedReplicasOf(actual[i].name) = 0
         /\ actual[i].replicas = 0
         /\ IntentsOf(actual[i].name) /= {}
    /\ \E i \in 1..Len(actual) : IntentsOf(actual[i].name) = {}

\* C7: every intent of the Differ has 0 <= target <= current and is a full
\* removal or a replica decrease; the default branch of attemptDownscale is
\* never taken.
C7_IntentsShrink ==
    /\ \A k \in 1..Len(downscales) :
         LET d == downscales[k]
         IN  /\ 0 <= d.targetReplicas
             /\ d.targetReplicas <= d.initialReplicas
             /\ \/ d.initialReplicas = 0 /\ d.targetReplicas = 0
                \/ d.targetReplicas < d.initialReplicas
    /\ pc = "attempt" =>
         (isRemoval(downscales[idx]) \/ isReplicaDecrease(downscales[idx]))

\* Both kinds of intent are being attempted in one pass.
C7_Witness ==
    /\ pc = "attempt"
    /\ \E k \in 1..Len(downscales) : isRemoval(downscales[k])
    /\ \E k \in 1..Len(downscales) : isReplicaDecrease(downscales[k])

\* The intents whose leaving nodes are looked at: the downscales of the pass,
\* the performable downscale, and every target for the actual StatefulSets.
IntentsToCheck ==
    SeqToSet(downscales) \cup
    {[name |-> actual[i].name, master |-> actual[i].master,
      initialReplicas |-> actual[i].replicas, targetReplicas |-> t] :
        i \in 1..Len(actual), t \in 0..(MaxReplicas + 1)}

\* C8: the leaving nodes of an intent are the pods of the ordinals of
\* [targetReplicas, initialReplicas), each once, from initialReplicas-1 down;
\* there is none when targetReplicas >= initialReplicas. The intents are
\* looked at where the pass gets them: right after the guard, for the
\* StatefulSets and the downscales of the pass, and where doDownscale is
\* entered, for the performable downscale.
C8_LeavingNodeNames ==
    \A d \in (IF pc = "migrate" THEN IntentsToCheck
               ELSE IF pc = "zen" THEN {performable} ELSE {}) :
        LET nodes == ssetLeavingNodeNames(d)
        IN  /\ d.targetReplicas >= d.initialReplicas => nodes = <<>>
            /\ d.targetReplicas < d.initialReplicas =>
                  Len(nodes) = d.initialReplicas - d.targetReplicas
            /\ \A k \in 1..Len(nodes) :
                  nodes[k] = PodName(d.name, d.initialReplicas - k)
            /\ \A j, k \in 1..Len(nodes) : j /= k => nodes[j] /= nodes[k]
            /\ \A k \in 1..Len(nodes) :
                  \A o \in 0..(MaxReplicas + 2) :
                     (o >= d.initialReplicas \/ o < d.targetReplicas) =>
                         nodes[k] /= PodName(d.name, o)

\* An intent with three leaving nodes is being attempted.
C8_Witness ==
    /\ pc = "attempt"
    /\ Len(ssetLeavingNodeNames(downscales[idx])) >= 3
    /\ leavingNodes /= <<>>

\* The leaving node at position j (1 = highest ordinal) has migrated.
MigratedAt(d, j) == PodName(d.name, d.initialReplicas - j) \notin observed

\* Length of the longest prefix of the leaving nodes, from the highest
\* ordinal down, whose migration is over.
MigratedPrefix(d) ==
    LET total == d.initialReplicas - d.targetReplicas
    IN  CHOOSE n \in 0..total :
            /\ \A j \in 1..n : MigratedAt(d, j)
            /\ n = total \/ ~MigratedAt(d, n + 1)

\* C9: for a shrink intent the performable target is current minus the
\* length of the longest migrated prefix of the leaving nodes; it lies
\* between the desired target and current, and is the desired target exactly
\* when every leaving node has migrated; doDownscale is given that downscale.
\* The intents are looked at where the pass attempts them.
C9_PerformableTarget ==
    /\ pc = "attempt" =>
       \A k \in 1..Len(downscales) :
         LET d == downscales[k]
             p == calculatePerformableDownscale(observed, d)
         IN  isReplicaDecrease(d) =>
               /\ p.name = d.name
               /\ p.initialReplicas = d.initialReplicas
               /\ p.targetReplicas = d.initialReplicas - MigratedPrefix(d)
               /\ d.targetReplicas <= p.targetReplicas
               /\ p.targetReplicas <= d.initialReplicas
               /\ (p.targetReplicas = d.targetReplicas) <=>
                    (\A j \in 1..(d.initialReplicas - d.targetReplicas) : MigratedAt(d, j))
    /\ pc \in {"zen", "zen1", "zen2", "update"} =>
         /\ performable.name = downscales[idx].name
         /\ performable.targetReplicas =
               downscales[idx].initialReplicas - MigratedPrefix(downscales[idx])
         /\ performable.targetReplicas < performable.initialReplicas

\* doDownscale is entered with a target strictly between desired and current.
C9_Witness ==
    /\ pc = "zen"
    /\ downscales[idx].targetReplicas < performable.targetReplicas
    /\ performable.targetReplicas < performable.initialReplicas

\* Scenario B: 3 replicas of "data" are expected and 5 exist, the node of
\* ordinal 4 has not migrated and the node of ordinal 3 has; the pass has
\* ended, the guard having passed and no call having failed.
ScenarioBDone ==
    /\ pc = "done"
    /\ GuardPassed
    /\ results.err = NoErr
    /\ expected = <<[name |-> "data", replicas |-> 3]>>
    /\ Len(actual) = 1
    /\ actual[1].name = "data"
    /\ actual[1].replicas = 5
    /\ PodName("data", 4) \in observed
    /\ PodName("data", 3) \notin observed

\* C10 as claimed: in scenario B the pass leaves "data" with 4 replicas and
\* asks for a requeue.
C10_ScenarioBAsClaimed ==
    ScenarioBDone => (store["data"].replicas = 4 /\ results.requeue)

\* C10 (amended): in scenario B the pass leaves "data" with its 5 replicas
\* (the node of ordinal 4 blocks the node of ordinal 3, no Update is issued),
\* marks the cluster as migrating data and asks for a requeue.
C10_ScenarioB ==
    ScenarioBDone =>
        /\ store["data"].exists
        /\ store["data"].replicas = 5
        /\ CallsOf("Update") = {}
        /\ phase = "migrating"
        /\ results.requeue
        /\ results.requeueAfter = defaultRequeueAfter

\* Scenario B has been run to its end.
C10_Witness == ScenarioBDone /\ Len(calls) = 2

\* The pass has ended, the guard having passed and no call having failed.
PassDoneWithoutError == pc = "done" /\ GuardPassed /\ results.err = NoErr

\* Scenario A: 3 replicas of "data" are expected and 5 exist, and the nodes
\* of ordinals 4 and 3 have migrated.
ScenarioADone ==
    /\ PassDoneWithoutError
    /\ expected = <<[name |-> "data", replicas |-> 3]>>
    /\ actual[1].name = "data"
    /\ actual[1].replicas = 5
    /\ PodName("data", 4) \notin observed
    /\ PodName("data", 3) \notin observed

\* C11: when the guard passes and no call fails, the pass asks for a requeue
\* exactly when some shrink intent has a leaving node, among those down to
\* its desired target, that has not migrated (its performable target is not
\* its desired target); in scenario A "data" is left with 3 replicas and no
\* requeue is asked for.
C11_RequeueIffPartial ==
    /\ PassDoneWithoutError =>
         (results.requeue <=>
            \E k \in 1..Len(downscales) :
               /\ isReplicaDecrease(downscales[k])
               /\ downscales[k].initialReplicas - MigratedPrefix(downscales[k])
                     /= downscales[k].targetReplicas)
    /\ PassDoneWithoutError /\ results.requeue =>
         results.requeueAfter = defaultRequeueAfter
    /\ ScenarioADone =>
         /\ store["data"].exists
         /\ store["data"].replicas = 3
         /\ ~results.requeue

\* Scenario A has been run to its end.
C11_Witness == ScenarioADone /\ CallsOf("Update") /= {}

\* The Update at position k of the calls takes a master-eligible StatefulSet
\* holding all the master-eligible replicas of a zen1 compatible cluster from
\* `from` replicas to `to`.
MasterTransition(k, from, to) ==
    /\ calls[k].op = "Update"
    /\ MasterInActual(calls[k].sset)
    /\ AtLeastOneNodeCompatibleWithZen1(actual)
    /\ MasterReplicas(actual) = from
    /\ DownscaleOfName(calls[k].sset).initialReplicas = from
    /\ calls[k].val = to

\* C12: with a zen1 compatible StatefulSet, the Update that takes the
\* master-eligible replicas from 2 to 1 comes after a minimum_master_nodes
\* update with value 1 and after the warning event has been recorded.
C12_TwoToOneUpdatesMinimumMasterNodes ==
    \A k \in 1..Len(calls) :
        MasterTransition(k, 2, 1) =>
            /\ \E j \in 1..(k - 1) :
                  /\ calls[j].op = "UpdateMinimumMasterNodesTo"
                  /\ calls[j].val = 1
                  /\ calls[j].ok
            /\ "Downscaling from 2 to 1 master nodes" \in events

\* C13: the pass whose Update takes the master-eligible replicas from 3 to 2
\* issues no minimum_master_nodes update, whatever the readiness of the
\* master pods.
C13_ThreeToTwoKeepsMinimumMasterNodes ==
    \A k \in 1..Len(calls) :
        MasterTransition(k, 3, 2) => CallsOf("UpdateMinimumMasterNodesTo") = {}

\* C14: the Update of a master-eligible StatefulSet comes after a successful
\* AddToVotingConfigExclusions for that StatefulSet, whose nodes are exactly
\* the pods the Update removes (the ordinals from current-1 down to the
\* replica count written), none of them being a node that has not migrated.
C14_VotingExclusionsOfRemovedNodes ==
    \A k \in CallsOf("Update") :
        MasterInActual(calls[k].sset) =>
            LET d == DownscaleOfName(calls[k].sset)
                removed == d.initialReplicas - calls[k].val
            IN  /\ removed > 0
                /\ \E j \in 1..(k - 1) :
                      /\ calls[j].op = "AddToVotingConfigExclusions"
                      /\ calls[j].sset = calls[k].sset
                      /\ calls[j].ok
                      /\ Len(calls[j].nodes) = removed
                      /\ \A i \in 1..removed :
                            /\ calls[j].nodes[i] = PodName(d.name, d.initialReplicas - i)
                            /\ calls[j].nodes[i] \notin observed
                /\ \A j \in CallsOf("AddToVotingConfigExclusions") :
                      calls[j].sset = calls[k].sset =>
                         \A o \in BlockedOrdinals(d) :
                            \A i \in 1..Len(calls[j].nodes) :
                               calls[j].nodes[i] /= PodName(d.name, o)

\* A master-eligible StatefulSet has been updated while one of its leaving
\* nodes is still blocked by its migration.
C14_Witness ==
    \E k \in CallsOf("Update") :
        /\ MasterInActual(calls[k].sset)
        /\ calls[k].ok
        /\ BlockedOrdinals(DownscaleOfName(calls[k].sset)) /= {}

\* The pods the i-th actual StatefulSet has to lose to reach its desired
\* replica count (0 when it is not expected), highest ordinal first.
LeavingOfActual(i) ==
    LET n == actual[i].name
        r == actual[i].replicas
        t == IF InExpected(n) THEN ExpectedReplicasOf(n) ELSE 0
    IN  IF t < r THEN [j \in 1..(r - t) |-> PodName(n, r - j)] ELSE <<>>

RECURSIVE AllLeavingFrom(_)
AllLeavingFrom(i) ==
    IF i > Len(actual) THEN <<>> ELSE LeavingOfActual(i) \o AllLeavingFrom(i + 1)

PerSsetOps == ZenOps \cup {"Update", "ExpectGeneration", "Delete"}

\* C15: a pass whose guard passes calls MigrateData exactly once, right
\* after the guard and before any zen update, Update or Delete, with the
\* leaving nodes of all the actual StatefulSets in list order, computed from
\* the desired replica counts (nodes whose migration is not over included,
\* the empty list when there is none); a pass whose guard does not pass
\* does not call it. The nodes are looked at when the call has just been made.
C15_ExclusionsOncePerPass ==
    /\ (calls /= <<>> /\ ~GuardPassed) => CallsOf("MigrateData") = {}
    /\ (GuardPassed /\ pc = "migrate") => Len(calls) = 1
    /\ (GuardPassed /\ pc /= "migrate") =>
          /\ CallsOf("MigrateData") = {2}
          /\ Len(calls) = 2 => calls[2].nodes = AllLeavingFrom(1)
          /\ \A k \in 1..Len(calls) : calls[k].op \in PerSsetOps => k > 2

\* MigrateData has been given the leaving nodes of two StatefulSets, one of
\* which is not removed in the pass, and a StatefulSet has been updated.
C15_Witness ==
    /\ GuardPassed
    /\ pc = "done"
    /\ CallsOf("Update") /= {}
    /\ \E i, j \in 1..Len(calls[2].nodes) :
          /\ calls[2].nodes[i] = PodName("data", 2)
          /\ calls[2].nodes[i] \in observed
          /\ calls[2].nodes[j] = PodName("transient", 0)

\* MigrateData has been called with the empty list.
C15_WitnessEmpty ==
    /\ GuardPassed
    /\ Len(calls) >= 2
    /\ calls[2].op = "MigrateData"
    /\ calls[2].nodes = <<>>

\* The error HandleDownscale returns when the call with that operation fails.
ErrorOf(op) ==
    CASE op = "PodReconciliationDone" -> "guard"
      [] op = "MigrateData" -> "migrate"
      [] op = "Delete" -> "delete"
      [] op = "GetActualPodsForCluster" -> "pods"
      [] op = "UpdateMinimumMasterNodesTo" -> "zen1"
      [] op = "AddToVotingConfigExclusions" -> "zen2"
      [] op = "Update" -> "update"
      [] OTHER -> NoErr

\* C16: a call that fails is the last call of the pass, which ends at once
\* with the error of that call (no call is issued for a later intent, no
\* call is issued twice); the StatefulSets updated or deleted before it stay
\* updated or deleted.
C16_ErrorEndsPass ==
    /\ \A k \in 1..Len(calls) :
          ~calls[k].ok =>
             /\ k = Len(calls)
             /\ pc = "done"
             /\ results.err = ErrorOf(calls[k].op)
    /\ (\A k \in 1..Len(calls) : calls[k].ok) => results.err = NoErr
    /\ \A j, k \in 1..Len(calls) :
          (j /= k /\ calls[j].op = calls[k].op) => calls[j].sset /= calls[k].sset
    /\ \A k \in 1..Len(calls) :
          /\ (calls[k].op = "Update" /\ calls[k].ok) =>
                /\ store[calls[k].sset].exists
                /\ store[calls[k].sset].replicas = calls[k].val
          /\ (calls[k].op = "Delete" /\ calls[k].ok) => ~store[calls[k].sset].exists
          /\ (calls[k].op \in {"Update", "Delete"} /\ ~calls[k].ok) =>
                /\ store[calls[k].sset].exists
                /\ store[calls[k].sset].replicas =
                      DownscaleOfName(calls[k].sset).initialReplicas

\* The pass has ended on a failed call for the second intent, the
\* StatefulSet of the first intent having been updated.
C16_Witness ==
    /\ pc = "done"
    /\ Len(downscales) = 2
    /\ idx = 2
    /\ ~calls[Len(calls)].ok
    /\ calls[Len(calls)].sset = downscales[2].name
    /\ \E k \in CallsOf("Update") :
          /\ calls[k].ok
          /\ calls[k].sset = downscales[1].name
          /\ store[downscales[1].name].replicas < downscales[1].initialReplicas

\* The pass has ended on a failed MigrateData while intents were due.
C16_WitnessExclusions ==
    /\ pc = "done"
    /\ Len(calls) = 2
    /\ ~calls[2].ok
    /\ downscales /= <<>>

\* The intent at position k has current = target = 0 and has been attempted.
RemovalAttempted(k) ==
    /\ downscales[k].initialReplicas = 0
    /\ downscales[k].targetReplicas = 0
    /\ k < idx

\* Scenario C: "transient" is not expected and exists with 0 replicas; the
\* pass has ended, the guard having passed and no call having failed.
ScenarioCDone ==
    /\ PassDoneWithoutError
    /\ ~InExpected("transient")
    /\ \E i \in 1..Len(actual) :
          actual[i].name = "transient" /\ actual[i].replicas = 0

\* C17: an intent with current = target = 0 is handled by one Delete of its
\* StatefulSet, which is gone when the Delete succeeds, with no zen call,
\* Update nor ExpectGeneration for it; a pass with such intents only marks
\* neither the requeue nor the migrating phase; in scenario C "transient" is
\* deleted.
C17_RemovalDeletes ==
    /\ \A k \in 1..Len(downscales) :
          RemovalAttempted(k) =>
             /\ Cardinality({j \in CallsOf("Delete") :
                                calls[j].sset = downscales[k].name}) = 1
             /\ \A j \in 1..Len(calls) :
                   calls[j].sset = downscales[k].name =>
                      /\ calls[j].op = "Delete"
                      /\ calls[j].ok => ~store[downscales[k].name].exists
    /\ (GuardPassed /\
         \A k \in 1..Len(downscales) : downscales[k].initialReplicas = 0) =>
             /\ ~results.requeue
             /\ phase = "operational"
             /\ \A j \in 1..Len(calls) : j > 2 => calls[j].op = "Delete"
    /\ ScenarioCDone => ~store["transient"].exists

\* Scenario C has been run to its end, "data" being shrunk in the same pass.
C17_Witness ==
    /\ ScenarioCDone
    /\ CallsOf("Delete") /= {}
    /\ CallsOf("Update") /= {}

\* The previous pass and the pass that has just ended ran in a row (nothing
\* changed the cluster in between), the guard passed and no call failed in
\* either, and when the previous pass started some node had to leave and no
\* leaving node had completed its migration.
TwoRunsNothingMigrated ==
    /\ pc = "done"
    /\ lastRun.ran
    /\ GuardPassed
    /\ results.err = NoErr
    /\ lastRun.calls /= <<>>
    /\ lastRun.results.err = NoErr
    /\ LET nodes == leavingNodeNames(calculateDownscales(expected, lastRun.actual))
       IN  /\ nodes /= <<>>
           /\ \A i \in 1..Len(nodes) : nodes[i] \in lastRun.observed

\* Both runs have the same outcome, a requeue without error, have given the
\* same nodes to MigrateData, and have issued no Update and no Delete.
SameOutcomeNoMutation ==
    /\ results = lastRun.results
    /\ results.requeue
    /\ results.err = NoErr
    /\ calls[2].op = "MigrateData"
    /\ lastRun.calls[1].op = "MigrateData"
    /\ calls[2].nodes = lastRun.calls[1].nodes
    /\ CallsOf("Update") = {}
    /\ CallsOf("Delete") = {}
    /\ \A k \in 1..Len(lastRun.calls) : lastRun.calls[k].op = "MigrateData"

\* No StatefulSet of the list has 0 replicas and is to be removed.
NoRemovalIn(list) ==
    \A i \in 1..Len(list) :
        list[i].replicas = 0 =>
            (InExpected(list[i].name) /\ ExpectedReplicasOf(list[i].name) > 0)

\* C18 as claimed: two runs in a row from a state in which no leaving node
\* has completed its migration have the same outcome (requeue, no error),
\* give the same nodes to the exclusion call, and issue no Update nor Delete.
C18_IdempotentAsClaimed == TwoRunsNothingMigrated => SameOutcomeNoMutation

\* C18 (amended): the same, from a state in which, moreover, no StatefulSet
\* with 0 replicas is to be removed; the second run then starts from the
\* StatefulSets and the migration state the first run started from.
C18_Idempotent ==
    (TwoRunsNothingMigrated /\ NoRemovalIn(lastRun.actual)) =>
        /\ SameOutcomeNoMutation
        /\ actual = lastRun.actual
        /\ observed = lastRun.observed
        /\ ActualList(store) = actual

\* Two runs in a row have ended, two StatefulSets having nodes that have not
\* migrated.
C18_Witness ==
    /\ TwoRunsNothingMigrated
    /\ NoRemovalIn(lastRun.actual)
    /\ Len(calculateDownscales(expected, lastRun.actual)) = 2

\* The calls of the pass with that operation for that StatefulSet.
CallsFor(op, name) == {k \in CallsOf(op) : calls[k].sset = name}

\* C19: ExpectGeneration is recorded for a StatefulSet exactly when its
\* Update has succeeded in the pass, once, right after that Update; none is
\* recorded for a StatefulSet whose zen update or Update failed, that had no
\* node to remove, or that was deleted.
C19_ExpectationAfterUpdate ==
    /\ \A n \in NameSet :
          /\ (CallsFor("ExpectGeneration", n) /= {}) <=>
                (\E k \in CallsFor("Update", n) : calls[k].ok)
          /\ Cardinality(CallsFor("ExpectGeneration", n)) <= 1
          /\ (\E k \in 1..Len(calls) : calls[k].sset = n /\ ~calls[k].ok) =>
                CallsFor("ExpectGeneration", n) = {}
          /\ CallsFor("Delete", n) /= {} => CallsFor("ExpectGeneration", n) = {}
    /\ \A j \in CallsOf("ExpectGeneration") :
          /\ j > 1
          /\ calls[j - 1].op = "Update"
          /\ calls[j - 1].sset = calls[j].sset
          /\ calls[j - 1].ok
    /\ \A k \in 1..Len(downscales) :
          (k < idx /\ PodName(downscales[k].name, downscales[k].initialReplicas - 1)
                        \in observed) =>
              CallsFor("ExpectGeneration", downscales[k].name) = {}

\* A pass has ended with a generation expected for the StatefulSet it has
\* updated, and none for one whose Update failed or which it has deleted.
C19_Witness ==
    /\ pc = "done"
    /\ \E n \in NameSet :
          /\ CallsFor("ExpectGeneration", n) /= {}
          /\ \E k \in CallsFor("Update", n) : store[n].replicas = calls[k].val
    /\ \E n \in NameSet :
          /\ CallsFor("ExpectGeneration", n) = {}
          /\ CallsFor("Update", n) \cup CallsFor("Delete", n) /= {}

\* The intent at position k is a shrink whose leaving node of the highest
\* ordinal has not migrated, and it has been attempted.
BlockedAttempted(k) ==
    /\ downscales[k].targetReplicas < downscales[k].initialReplicas
    /\ PodName(downscales[k].name, downscales[k].initialReplicas - 1) \in observed
    /\ k < idx

\* C20: once a shrink intent whose highest leaving node has not migrated has
\* been attempted, the pass has issued no call for its StatefulSet (no zen
\* call, Update, ExpectGeneration nor Delete, hence no error from it), the
\* StatefulSet keeps its replicas, the cluster is marked as migrating data
\* and the requeue is asked for; a pass that ends without error has gone
\* on to attempt every intent.
C20_NothingPerformable ==
    \A k \in 1..Len(downscales) :
        BlockedAttempted(k) =>
            /\ \A j \in 1..Len(calls) : calls[j].sset /= downscales[k].name
            /\ store[downscales[k].name].exists
            /\ store[downscales[k].name].replicas = downscales[k].initialReplicas
            /\ phase = "migrating"
            /\ results.requeue
            /\ results.requeueAfter = defaultRequeueAfter
            /\ (results.err = NoErr /\ pc = "done") => idx = Len(downscales) + 1

\* A blocked intent has been attempted and the pass has gone on to update
\* the StatefulSet of the next intent.
C20_Witness ==
    /\ pc = "done"
    /\ results.err = NoErr
    /\ CallsOf("Update") /= {}
    /\ \E k \in 1..Len(downscales) :
          /\ BlockedAttempted(k)
          /\ PodName(downscales[k].name, downscales[k].targetReplicas) \notin observed
          /\ downscales[k].initialReplicas - downscales[k].targetReplicas >= 2

\* C21: when the StatefulSet of the intent does not exist any more at the
\* moment its Update or its Delete is issued, the call fails,
\* the pass ends at once with the error of that call, and the StatefulSet is
\* not created again.
C21_VanishedIsHardError ==
    [][ /\ (pc = "update" /\ ~store[performable.name].exists /\ calls' /= calls) =>
             /\ pc' = "done"
             /\ results'.err = "update"
             /\ ~calls'[Len(calls')].ok
             /\ calls'[Len(calls')].op = "Update"
             /\ store' = store
        /\ (/\ pc = "attempt"
            /\ isRemoval(downscales[idx])
            /\ ~store[downscales[idx].name].exists
            /\ calls' /= calls) =>
             /\ pc' = "done"
             /\ results'.err = "delete"
             /\ ~calls'[Len(calls')].ok
             /\ calls'[Len(calls')].op = "Delete"
             /\ store' = store ]_vars

\* A pass has ended on the Update or the Delete of a StatefulSet that had
\* vanished.
C21_Witness ==
    /\ pc = "done"
    /\ calls[Len(calls)].op \in {"Update", "Delete"}
    /\ ~calls[Len(calls)].ok
    /\ ~store[calls[Len(calls)].sset].exists
    /\ results.err \in {"update", "delete"}

\* No call of the pass has failed.
NoCallFailed == \A k \in 1..Len(calls) : calls[k].ok

\* Every StatefulSet that exists is expected, and has exactly its expected
\* replica count when that count is positive.
ConvergedExactly ==
    \A n \in NameSet :
        store[n].exists =>
            /\ InExpected(n)
            /\ ExpectedReplicasOf(n) > 0 => store[n].replicas = ExpectedReplicasOf(n)

\* Every StatefulSet that exists is expected, and has at most its expected
\* replica count when that count is positive.
ConvergedAtMost ==
    \A n \in NameSet :
        store[n].exists =>
            /\ InExpected(n)
            /\ ExpectedReplicasOf(n) > 0 => store[n].replicas <= ExpectedReplicasOf(n)

IntentIndex(name) == CHOOSE k \in 1..Len(downscales) : downscales[k].name = name

\* The highest leaving node of the intent at position k has not migrated.
BlockedIntent(k) ==
    /\ downscales[k].targetReplicas < downscales[k].initialReplicas
    /\ PodName(downscales[k].name, downscales[k].initialReplicas - 1) \in observed

\* C23: the calls for the StatefulSets come in the order of the intents,
\* which is the order of the actual StatefulSets (each call is compared, once
\* it is made, with the calls before it); in a pass that ends without
\* error every intent has been attempted, whatever intents are blocked by a
\* migration: every StatefulSet without replicas has been deleted and every
\* StatefulSet whose highest leaving node has migrated has got the replicas
\* left by its migrated nodes.
C23_IntentsIndependent ==
    /\ IntentsFromActual
    /\ \A j \in 1..Len(calls), k \in {Len(calls)} :
          (j < k /\ calls[j].sset /= "" /\ calls[k].sset /= "") =>
              IntentIndex(calls[j].sset) <= IntentIndex(calls[k].sset)
    /\ \A k \in {Len(calls)} \ {0} :
          calls[k].sset /= "" => IntentIndex(calls[k].sset) <= idx
    /\ PassDoneWithoutError =>
          \A k \in 1..Len(downscales) :
             LET d == downscales[k]
             IN  /\ (d.initialReplicas = 0 /\ d.targetReplicas = 0) =>
                       ~store[d.name].exists
                 /\ (d.targetReplicas < d.initialReplicas /\ ~BlockedIntent(k)) =>
                       /\ store[d.name].replicas = d.initialReplicas - MigratedPrefix(d)
                       /\ store[d.name].replicas < d.initialReplicas
                 /\ BlockedIntent(k) => store[d.name].replicas = d.initialReplicas

\* A pass has ended in which the first intent was blocked by a migration and
\* the StatefulSet of the second one has been updated.
C23_Witness ==
    /\ PassDoneWithoutError
    /\ Len(downscales) = 2
    /\ BlockedIntent(1)
    /\ \E k \in CallsOf("Update") :
          calls[k].sset = downscales[2].name /\ calls[k].ok

\* A pass has ended in which the StatefulSet of the first intent has been
\* updated and the second intent was blocked by a migration.
C23_WitnessLater ==
    /\ PassDoneWithoutError
    /\ Len(downscales) = 2
    /\ BlockedIntent(2)
    /\ \E k \in CallsOf("Update") :
          calls[k].sset = downscales[1].name /\ calls[k].ok

\* C24: a Delete is only issued for a StatefulSet that had 0 replicas when
\* the pass started and that the pass has not updated; a StatefulSet that is
\* not expected and has replicas gets a shrink intent toward 0, whose Update
\* keeps every node that has not migrated, and it still exists, with the
\* replicas written, after that Update.
C24_DeleteOnlyEmpty ==
    /\ \A k \in CallsOf("Delete") :
          /\ \E i \in 1..Len(actual) :
                actual[i].name = calls[k].sset /\ actual[i].replicas = 0
          /\ DownscaleOfName(calls[k].sset).initialReplicas = 0
          /\ CallsFor("Update", calls[k].sset) = {}
    /\ GuardPassed =>
          \A i \in 1..Len(actual) :
             (~InExpected(actual[i].name) /\ actual[i].replicas > 0) =>
                 /\ CallsFor("Delete", actual[i].name) = {}
                 /\ store[actual[i].name].exists
                 /\ \E k \in 1..Len(downscales) :
                       /\ downscales[k].name = actual[i].name
                       /\ downscales[k].targetReplicas = 0
                       /\ downscales[k].initialReplicas = actual[i].replicas
                 /\ \A k \in CallsFor("Update", actual[i].name) :
                       /\ \A o \in BlockedOrdinals(DownscaleOfName(actual[i].name)) :
                             calls[k].val > o
                       /\ MasterInActual(actual[i].name) =>
                             \E j \in 1..(k - 1) :
                                /\ calls[j].op = "AddToVotingConfigExclusions"
                                /\ calls[j].sset = actual[i].name
                                /\ calls[j].ok

\* A pass has ended that has taken to 0 the replicas of a StatefulSet that
\* is not expected, without deleting it.
C24_Witness ==
    /\ pc = "done"
    /\ \E k \in CallsOf("Update") :
          /\ calls[k].ok
          /\ calls[k].val = 0
          /\ ~InExpected(calls[k].sset)
          /\ store[calls[k].sset].exists
          /\ store[calls[k].sset].replicas = 0

\* The replica count the pass found for the actual StatefulSet of that name.
ActualReplicasOf(name) ==
    (CHOOSE a \in SeqToSet(actual) : a.name = name).replicas

\* C25: the replica count r written by an Update satisfies
\* desired <= r < current, where current is the count the pass started with
\* and desired the expected count (0 for a StatefulSet that is not expected);
\* during a pass no StatefulSet has more replicas than it started with, nor
\* fewer than desired.
C25_WrittenReplicasInRange ==
    /\ \A k \in CallsOf("Update") :
          LET n == calls[k].sset
              desired == IF InExpected(n) THEN ExpectedReplicasOf(n) ELSE 0
          IN  /\ desired <= calls[k].val
              /\ calls[k].val < ActualReplicasOf(n)
    /\ \A i \in 1..Len(actual) :
          LET n == actual[i].name
              desired == IF InExpected(n) THEN ExpectedReplicasOf(n) ELSE 0
          IN  /\ store[n].replicas <= actual[i].replicas
              /\ (store[n].exists /\ actual[i].replicas >= desired) =>
                    store[n].replicas >= desired

\* An Update has written a count strictly between desired and current.
C25_Witness ==
    \E k \in CallsOf("Update") :
        /\ calls[k].ok
        /\ InExpected(calls[k].sset)
        /\ ExpectedReplicasOf(calls[k].sset) < calls[k].val
        /\ calls[k].val < ActualReplicasOf(calls[k].sset)
        /\ store[calls[k].sset].replicas = calls[k].val

\* ------------------------------------------- package pdb (pdb/reconcile.go)
\* The name of the Elasticsearch resource.
esName == "es"

\* v1alpha1.ElasticsearchGreenHealth and the other values of es.Status.Health.
ElasticsearchGreenHealth == "green"
Healths == {ElasticsearchGreenHealth, "yellow", "red", "unknown"}

\* The StatefulSets given to pdb.Reconcile: replicas and node roles.
PdbSsetLists ==
    UNION {[1..n -> [replicas : 0..MaxPdbReplicas, master : BOOLEAN, data : BOOLEAN]] :
              n \in 0..MaxPdbSsets}

\* The replicas asked for by the StatefulSets of the list that have the role.
RECURSIVE ExpectedCountFrom(_, _, _)
ExpectedCountFrom(list, role, i) ==
    IF i > Len(list) THEN 0
    ELSE (IF list[i][role] THEN list[i].replicas ELSE 0)
         + ExpectedCountFrom(list, role, i + 1)

\* StatefulSetList.ExpectedPodCount: the replicas asked for by all of them.
RECURSIVE ExpectedPodCountFrom(_, _)
ExpectedPodCountFrom(list, i) ==
    IF i > Len(list) THEN 0
    ELSE list[i].replicas + ExpectedPodCountFrom(list, i + 1)

ExpectedPodCount(list) == ExpectedPodCountFrom(list, 1)

\* StatefulSetList.ExpectedMasterNodesCount.
ExpectedMasterNodesCount(list) == ExpectedCountFrom(list, "master", 1)

\* StatefulSetList.ExpectedDataNodesCount.
ExpectedDataNodesCount(list) == ExpectedCountFrom(list, "data", 1)

\* allowedDisruptions: one pod, on a green cluster that has neither a single
\* master node nor a single data node.
\* Variant: a single data node does not forbid the disruption.
allowedDisruptionsIgnoringData(esv, actualSsets) ==
    IF esv.health /= ElasticsearchGreenHealth THEN 0
    ELSE IF ExpectedMasterNodesCount(actualSsets) = 1 THEN 0
    ELSE 1

allowedDisruptions(esv, actualSsets) ==
    IF esv.health /= ElasticsearchGreenHealth THEN 0
    ELSE IF ExpectedMasterNodesCount(actualSsets) = 1 THEN 0
    ELSE IF ExpectedDataNodesCount(actualSsets) = 1 THEN 0
    ELSE 1

\* label.NewLabels: the cluster-name label of the resource.
NewLabels(name) == [noLabels EXCEPT !["cluster-name"] = name]

\* buildPDBSpec: all the pods of the cluster are selected; MinAvailable is
\* the expected pod count minus the allowed disruptions.
buildPDBSpec(esv, statefulSets) ==
    LET nodeCount    == ExpectedPodCount(statefulSets)
        minAvailable == nodeCount - allowedDisruptions(esv, statefulSets)
    IN  [selector       |-> {NewLabels(esv.name)},
         minAvailable   |-> {minAvailable},
         maxUnavailable |-> {}]

\* The arguments of buildPDBSpec.
BudgetInputs == [health : Healths, statefulSets : PdbSsetLists]

\* The Elasticsearch resource with that health and that
\* spec.podDisruptionBudget.
EsOf(health, template) == [name |-> esName, health |-> health, template |-> template]

\* spec.podDisruptionBudget is not set.
noTemplate == [set |-> FALSE, disabled |-> FALSE, labels |-> noLabels, spec |-> zeroSpec]

\* buildPDBSpec is called with the arguments drawn.
buildPDBSpecCalled ==
    /\ budgetSpec = zeroSpec
    /\ budgetSpec' = buildPDBSpec(EsOf(budgetInput.health, noTemplate),
                                  budgetInput.statefulSets)
    /\ UNCHANGED <<budgetInput, downscaleVars, pdbVars, remoteVars>>

\* The specifications of buildPDBSpec over the arguments within the bounds.
InitBudget ==
    /\ DownscaleAtRest
    /\ PdbAtRest
    /\ RemoteAtRest
    /\ budgetInput \in BudgetInputs
    /\ budgetSpec = zeroSpec

NextBudget == buildPDBSpecCalled

SpecBudget == InitBudget /\ [][NextBudget]_vars

\* The values of spec.podDisruptionBudget: not set, disabled, or a template
\* with labels and a spec of the user, either of which may be empty.
TemplateLabels ==
    {noLabels, [noLabels EXCEPT !["team"] = "x"],
     [noLabels EXCEPT !["cluster-name"] = "other"]}

UserSpecs ==
    {[zeroSpec EXCEPT !.selector = {[noLabels EXCEPT !["team"] = "x"]}],
     [zeroSpec EXCEPT !.minAvailable = {1}],
     [zeroSpec EXCEPT !.maxUnavailable = {1}]}

Templates ==
    {noTemplate, [noTemplate EXCEPT !.set = TRUE, !.disabled = TRUE]} \cup
    [set : {TRUE}, disabled : {FALSE}, labels : TemplateLabels,
     spec : {zeroSpec} \cup UserSpecs]

\* PodDisruptionBudgetTemplate.IsDisabled.
IsDisabled(template) == template.set /\ template.disabled

\* defaults.SetDefaultLabels: the defaults are added to the labels; for a key
\* that the labels hold already either value is kept.
SetDefaultLabels(existing, dflt, keepExisting) ==
    [k \in LabelKeys |->
        IF dflt[k] = Nil THEN existing[k]
        ELSE IF existing[k] /= Nil /\ keepExisting THEN existing[k]
        ELSE dflt[k]]

\* expectedPDB: nothing when the PodDisruptionBudget is disabled; otherwise
\* the labels of the template with the labels of the cluster, and the spec of
\* the template when it sets a field, the default spec when it sets none.
expectedPDB(esv, statefulSets, ownerSet, keepExisting) ==
    IF IsDisabled(esv.template)
    THEN [err |-> NoErr, disabled |-> TRUE, pdb |-> NoPDB]
    ELSE IF ~ownerSet
    THEN [err |-> "owner", disabled |-> FALSE, pdb |-> NoPDB]
    ELSE LET template == esv.template
         IN  [err |-> NoErr, disabled |-> FALSE,
              pdb |-> [exists |-> TRUE,
                       labels |-> SetDefaultLabels(template.labels,
                                                   NewLabels(esv.name), keepExisting),
                       spec   |-> IF \/ template.spec.selector /= {}
                                     \/ template.spec.maxUnavailable /= {}
                                     \/ template.spec.minAvailable /= {}
                                  THEN template.spec
                                  ELSE buildPDBSpec(esv, statefulSets)]]

\* What expectedPDB returns over the resources and the StatefulSets within
\* the bounds, controllerutil.SetControllerReference succeeding or not.
ExpectedPDBs ==
    {expectedPDB(EsOf(h, t), l, o, k) :
        h \in Healths, t \in Templates, l \in PdbSsetLists,
        o \in BOOLEAN, k \in BOOLEAN}

\* A call to the Kubernetes client and what it answered: "ok", "notfound"
\* or "error".
PdbCall(op, res) == [op |-> op, res |-> res]

\* What a function ends with: its calls, the PodDisruptionBudget it leaves
\* and its error.
Ended(cs, p, e) == [calls |-> cs, pdb |-> p, err |-> e]

\* deleteDefaultPDB: Get, then Delete when it was found; not found is no
\* error for either (for Delete: it was deleted in between).
deleteDefaultPDB(cur) ==
    {Ended(<<PdbCall("Get", "error")>>, cur, "get")} \cup
    (IF ~cur.exists
     THEN {Ended(<<PdbCall("Get", "notfound")>>, cur, NoErr)}
     ELSE {Ended(<<PdbCall("Get", "ok"), PdbCall("Delete", "ok")>>, NoPDB, NoErr),
           Ended(<<PdbCall("Get", "ok"), PdbCall("Delete", "notfound")>>, NoPDB, NoErr),
           Ended(<<PdbCall("Get", "ok"), PdbCall("Delete", "error")>>, cur, "delete")})

\* k8sClient.Create: fails when the object exists already, and may fail anyway.
Create(cs, cur, exp) ==
    {Ended(Append(cs, PdbCall("Create", "error")), cur, "create")} \cup
    (IF cur.exists THEN {}
     ELSE {Ended(Append(cs, PdbCall("Create", "ok")), exp, NoErr)})

\* Reconcile, lines 46-52: a label of the expected ones is missing or differs.
needsLabelUpdate(exp, act) ==
    \E k \in LabelKeys : exp.labels[k] /= Nil /\ act.labels[k] /= exp.labels[k]

\* Reconcile after the first Get, which left act: delete then create when the
\* labels or the spec differ, nothing otherwise.
\* Variant: the create is attempted whatever deleteDefaultPDB returned.
recreateAnyway(cs, cur, act, exp) ==
    IF needsLabelUpdate(exp, act) \/ exp.spec /= act.spec
    THEN UNION {Create(cs \o d.calls, d.pdb, exp) : d \in deleteDefaultPDB(cur)}
    ELSE {Ended(cs, cur, NoErr)}

recreate(cs, cur, act, exp) ==
    IF needsLabelUpdate(exp, act) \/ exp.spec /= act.spec
    THEN UNION {IF d.err /= NoErr
                THEN {Ended(cs \o d.calls, d.pdb, d.err)}
                ELSE Create(cs \o d.calls, d.pdb, exp) :
                d \in deleteDefaultPDB(cur)}
    ELSE {Ended(cs, cur, NoErr)}

\* Reconcile: the ways it may end, from the PodDisruptionBudget that exists
\* and from what expectedPDB returned. An error of the first Get other than
\* not found is not returned: act is then the zero value.
ReconcileEnds(cur, e) ==
    IF e.err /= NoErr THEN {Ended(<<>>, cur, e.err)}
    ELSE IF e.disabled THEN deleteDefaultPDB(cur)
    ELSE recreate(<<PdbCall("Get", "error")>>, cur, NoPDB, e.pdb) \cup
         (IF ~cur.exists
          THEN Create(<<PdbCall("Get", "notfound")>>, cur, e.pdb)
          ELSE recreate(<<PdbCall("Get", "ok")>>, cur, cur, e.pdb))

\* pdb.Reconcile, from its call to its return.
Reconcile ==
    /\ \E e \in ExpectedPDBs :
          \E r \in ReconcileEnds(pdb, e) :
             /\ pdb' = r.pdb
             /\ pdbRun' = [ran |-> TRUE, disabled |-> e.disabled,
                           expected |-> e.pdb, before |-> pdb,
                           calls |-> r.calls, err |-> r.err]
    /\ UNCHANGED <<downscaleVars, remoteVars, budgetVars>>

\* The PodDisruptionBudgets that others may leave in the API: none, or an
\* expected one, possibly with one more label.
OtherPDBs ==
    {NoPDB} \cup
    UNION {{e.pdb, [e.pdb EXCEPT !.labels["team"] = "y"]} :
              e \in {x \in ExpectedPDBs : x.pdb.exists}}

\* Somebody else creates, changes or deletes the PodDisruptionBudget.
PDBChanges ==
    /\ pdb' \in OtherPDBs
    /\ pdb' /= pdb
    /\ pdbRun' = noPdbRun
    /\ UNCHANGED <<downscaleVars, remoteVars, budgetVars>>

InitPDB == DownscaleAtRest /\ OtherAtRest

NextPDB ==
    \/ Reconcile
    \/ PDBChanges

SpecPDB == InitPDB /\ [][NextPDB]_vars

\* ---------------- package remotecluster (elasticsearch.go, annotations.go)
\* The names that remote clusters are given, in the order of their encoding.
RemoteNameOrder == <<"r1", "r2">>
RemoteNames == {RemoteNameOrder[i] : i \in 1..Len(RemoteNameOrder)}

\* remoteSpec.ElasticsearchRef: the name of a cluster, "" when not defined.
NoRef == ""
Refs == {NoRef, "a", "b", "c"}

\* services.ExternalTransportServiceHost: the host of the transport service.
ExternalTransportServiceHost(ref) == ref \o "-es-transport"

\* esclient.RemoteCluster: seeds, none when nil.
RemoteCluster(seeds) == [seeds |-> seeds]

\* hash.HashObject of a RemoteCluster: a short string, which two different
\* objects may share.
remoteClusterHash(remote) ==
    IF remote.seeds = <<>> THEN "h0"
    ELSE IF remote.seeds[1] = ExternalTransportServiceHost("b") THEN "h2"
    ELSE "h1"

Hashes == {"h0", "h1", "h2"}

\* A map from remote cluster names to v: Nil for the names it does not hold.
noRemotes == [n \in RemoteNames |-> Nil]

\* ParseRemoteClusters: the remote clusters of the spec by name, those
\* without an Elasticsearch reference being skipped and a later entry
\* replacing an earlier one of the same name. NoSeeds marks a name not held.
NoSeeds == <<NoRef>>

RECURSIVE ParseRemoteClustersFrom(_, _, _)
ParseRemoteClustersFrom(remoteClusters, i, output) ==
    IF i > Len(remoteClusters) THEN output
    ELSE LET remoteSpec == remoteClusters[i]
         IN  IF remoteSpec.ref /= NoRef
             THEN ParseRemoteClustersFrom(remoteClusters, i + 1,
                      [output EXCEPT ![remoteSpec.name] =
                          <<ExternalTransportServiceHost(remoteSpec.ref)>>])
             ELSE ParseRemoteClustersFrom(remoteClusters, i + 1, output)

ParseRemoteClusters(esv) ==
    ParseRemoteClustersFrom(esv.remoteClusters, 1, [n \in RemoteNames |-> NoSeeds])

\* RemoteClustersByName.Hashes.
HashesOf(byName) ==
    [n \in RemoteNames |->
        IF byName[n] = NoSeeds THEN Nil
        ELSE remoteClusterHash(RemoteCluster(byName[n]))]

\* json.Marshal of a RemoteClustersHashes: the entries, sorted by name.
Marshal(hashes) ==
    [present |-> TRUE,
     hashes  |-> SelectSeq([i \in 1..Len(RemoteNameOrder) |->
                              <<RemoteNameOrder[i], hashes[RemoteNameOrder[i]]>>],
                           LAMBDA entry : entry[2] /= Nil)]

\* json.Unmarshal of the annotation into a RemoteClustersHashes: an error
\* for the empty string of an annotation that is not there.
UnmarshalFails(annotation) == ~annotation.present

RECURSIVE UnmarshalFrom(_, _, _)
UnmarshalFrom(entries, i, output) ==
    IF i > Len(entries) THEN output
    ELSE UnmarshalFrom(entries, i + 1,
                       [output EXCEPT ![entries[i][1]] = entries[i][2]])

Unmarshal(annotation) == UnmarshalFrom(annotation.hashes, 1, noRemotes)

\* RemoteClustersHashes.Contains.
Contains(hashes, name, hash) == hashes[name] /= Nil /\ hashes[name] = hash

\* UpdateSettings, lines 88-114: the remote clusters to add or update, and
\* those to remove, with nil seeds. NoSeeds marks a name not held.
toUpdateOf(act, exp) ==
    [n \in RemoteNames |->
        IF exp[n] /= NoSeeds
        THEN (IF ~Contains(act, n, remoteClusterHash(RemoteCluster(exp[n])))
              THEN exp[n] ELSE NoSeeds)
        ELSE (IF act[n] /= Nil THEN <<>> ELSE NoSeeds)]

\* A call of UpdateSettings: to Elasticsearch with the remote clusters, or to
\* the Kubernetes API with the annotation.
SettingsCall(remoteClusters, ok) ==
    [op |-> "UpdateSettings", remoteClusters |-> remoteClusters,
     annotation |-> [present |-> FALSE, hashes |-> <<>>], ok |-> ok]

AnnotationCall(annotation, ok) ==
    [op |-> "Update", remoteClusters |-> [n \in RemoteNames |-> NoSeeds],
     annotation |-> annotation, ok |-> ok]

\* What UpdateSettings ends with: its calls, the annotation it leaves, the
\* event it recorded and its error.
RemoteEnded(cs, annotation, event, e) ==
    [calls |-> cs, annotation |-> annotation, event |-> event, err |-> e]

\* UpdateSettings: the ways it may end for that resource, the enterprise
\* features being enabled or not. The license check, the settings call and
\* the update of the resource may each fail.
\* Variant: the annotation is updated whatever the settings call returned.
updateSettingsEndsAnnotatingAnyway(esv, enabled) ==
    {RemoteEnded(<<>>, esv.annotation, FALSE, "license")} \cup
    (IF ~enabled THEN {RemoteEnded(<<>>, esv.annotation, TRUE, NoErr)}
     ELSE IF UnmarshalFails(esv.annotation)
     THEN {RemoteEnded(<<>>, esv.annotation, FALSE, "annotation")}
     ELSE LET act        == Unmarshal(esv.annotation)
              exp        == ParseRemoteClusters(esv)
              toUpdate   == toUpdateOf(act, exp)
              serialized == Marshal(HashesOf(exp))
          IN  IF \E n \in RemoteNames : toUpdate[n] /= NoSeeds
              THEN {RemoteEnded(<<SettingsCall(toUpdate, ok),
                                  AnnotationCall(serialized, TRUE)>>,
                                serialized, FALSE, NoErr) : ok \in BOOLEAN}
              ELSE {RemoteEnded(<<>>, esv.annotation, FALSE, NoErr)})

updateSettingsEnds(esv, enabled) ==
    {RemoteEnded(<<>>, esv.annotation, FALSE, "license")} \cup
    (IF ~enabled THEN {RemoteEnded(<<>>, esv.annotation, TRUE, NoErr)}
     ELSE IF UnmarshalFails(esv.annotation)
     THEN {RemoteEnded(<<>>, esv.annotation, FALSE, "annotation")}
     ELSE LET act        == Unmarshal(esv.annotation)
              exp        == ParseRemoteClusters(esv)
              toUpdate   == toUpdateOf(act, exp)
              serialized == Marshal(HashesOf(exp))
          IN  IF \E n \in RemoteNames : toUpdate[n] /= NoSeeds
              THEN {RemoteEnded(<<SettingsCall(toUpdate, FALSE)>>,
                                esv.annotation, FALSE, "settings"),
                    RemoteEnded(<<SettingsCall(toUpdate, TRUE),
                                  AnnotationCall(serialized, FALSE)>>,
                                esv.annotation, FALSE, "update"),
                    RemoteEnded(<<SettingsCall(toUpdate, TRUE),
                                  AnnotationCall(serialized, TRUE)>>,
                                serialized, FALSE, NoErr)}
              ELSE {RemoteEnded(<<>>, esv.annotation, FALSE, NoErr)})

\* remotecluster.UpdateSettings, from its call to its return.
UpdateSettings ==
    /\ \E r \in updateSettingsEnds(es, enterprise) :
          LET follows == rcRun.ran /\ rcRun.err = NoErr
          IN  /\ es' = [es EXCEPT !.annotation = r.annotation]
              /\ rcRun' = [ran |-> TRUE, follows |-> follows,
                           previousCalls |-> IF follows THEN Len(rcRun.calls) ELSE 0,
                           before |-> es.annotation, event |-> r.event,
                           calls |-> r.calls, err |-> r.err]
    /\ UNCHANGED <<enterprise, downscaleVars, pdbVars, budgetVars>>

\* The values of the annotation: not there, or the encoding of some hashes.
Annotations ==
    {[present |-> FALSE, hashes |-> <<>>]} \cup
    {Marshal(h) : h \in [RemoteNames -> Hashes \cup {Nil}]}

\* The user adds a remote cluster to the spec of the resource.
RemoteClusterAdded ==
    /\ Len(es.remoteClusters) < MaxRemoteClusters
    /\ \E name \in RemoteNames, ref \in Refs :
          es' = [es EXCEPT !.remoteClusters = Append(@, [name |-> name, ref |-> ref])]
    /\ rcRun' = noRemoteRun
    /\ UNCHANGED <<enterprise, downscaleVars, pdbVars, budgetVars>>

\* The user removes a remote cluster from the spec of the resource.
RemoteClusterRemoved ==
    /\ \E i \in 1..Len(es.remoteClusters) :
          es' = [es EXCEPT !.remoteClusters =
                    SubSeq(@, 1, i - 1) \o SubSeq(@, i + 1, Len(@))]
    /\ rcRun' = noRemoteRun
    /\ UNCHANGED <<enterprise, downscaleVars, pdbVars, budgetVars>>

\* Somebody changes or removes the annotation of the resource.
AnnotationChanges ==
    /\ \E a \in Annotations :
          /\ a /= es.annotation
          /\ es' = [es EXCEPT !.annotation = a]
    /\ rcRun' = noRemoteRun
    /\ UNCHANGED <<enterprise, downscaleVars, pdbVars, budgetVars>>

\* The license of the operator changes.
LicenseChanges ==
    /\ enterprise' = ~enterprise
    /\ rcRun' = noRemoteRun
    /\ UNCHANGED <<es, downscaleVars, pdbVars, budgetVars>>

InitRemote == DownscaleAtRest /\ OtherAtRest

NextRemote ==
    \/ UpdateSettings
    \/ RemoteClusterAdded
    \/ RemoteClusterRemoved
    \/ AnnotationChanges
    \/ LicenseChanges

SpecRemote == InitRemote /\ [][NextRemote]_vars

\* The pods of a listing that have both conditions true.
ReadyIn(pods) ==
    {i \in 1..Len(pods) : pods[i].containersReady /\ pods[i].podReady}

\* The pass has listed the pods for that StatefulSet and found exactly two
\* ready master pods.
TwoReadyMastersFor(name) ==
    \E j \in CallsFor("GetActualPodsForCluster", name) :
        calls[j].ok /\ Cardinality(ReadyIn(calls[j].pods)) = 2

\* doDownscale has been entered for that StatefulSet and is past the
\* minimum_master_nodes decision.
PastZen1(name) ==
    \/ CallsFor("AddToVotingConfigExclusions", name) /= {}
    \/ CallsFor("Update", name) /= {}
    \/ (performable.name = name /\ pc \in {"zen2", "update"})

PassReturnedQuiet == pc = "done" /\ results.err = NoErr /\ ~results.requeue

\* Every expected StatefulSet that exists has at most its expected replicas.
ExpectedAtMost ==
    \A n \in NameSet :
        (store[n].exists /\ InExpected(n)) =>
            store[n].replicas <= ExpectedReplicasOf(n)

\* C27 as claimed: when a pass returns with neither an error nor a requeue
\* request, every expected StatefulSet has at most its expected replica
\* count and no StatefulSet absent from expected exists.
C27_NoWorkRemainsAsClaimed ==
    PassReturnedQuiet =>
        /\ ExpectedAtMost
        /\ \A n \in NameSet : ~InExpected(n) => ~store[n].exists

\* C27 (amended): when a pass returns with neither an error nor a requeue
\* request, every expected StatefulSet has at most its expected replica
\* count and no StatefulSet absent from expected exists with more than 0
\* replicas.
C27_NoWorkRemains ==
    PassReturnedQuiet =>
        /\ ExpectedAtMost
        /\ \A n \in NameSet :
              (~InExpected(n) /\ store[n].exists) => store[n].replicas = 0

\* A pass has returned with neither an error nor a requeue request after
\* taking a StatefulSet absent from expected down to 0 replicas, which is
\* left in existence.
C27_Witness ==
    /\ PassReturnedQuiet
    /\ \E k \in CallsOf("Update") :
          /\ calls[k].ok
          /\ ~InExpected(calls[k].sset)
          /\ store[calls[k].sset].exists
          /\ store[calls[k].sset].replicas = 0

\* The pods that a list of StatefulSets asks for: one for each StatefulSet
\* and each ordinal below its replicas.
PodsAskedFor(list) ==
    {p \in (1..Len(list)) \X (1..MaxPdbReplicas) : p[2] <= list[p[1]].replicas}

\* Those of the master-eligible StatefulSets, and those of the data ones.
MasterPodsAskedFor(list) == {p \in PodsAskedFor(list) : list[p[1]].master}
DataPodsAskedFor(list) == {p \in PodsAskedFor(list) : list[p[1]].data}

\* The cluster is green and has neither exactly one master node nor exactly
\* one data node.
DisruptionAllowed ==
    /\ budgetInput.health = "green"
    /\ Cardinality(MasterPodsAskedFor(budgetInput.statefulSets)) /= 1
    /\ Cardinality(DataPodsAskedFor(budgetInput.statefulSets)) /= 1

\* C28: the MinAvailable of the default PodDisruptionBudget spec is the
\* expected pod count of the StatefulSets minus the allowed disruptions,
\* which are 1 exactly when the cluster health is green, the expected master
\* node count is not 1 and the expected data node count is not 1, and 0
\* otherwise; never more than one pod may be disrupted.
C28_MinAvailable ==
    budgetSpec /= zeroSpec =>
        LET pods == Cardinality(PodsAskedFor(budgetInput.statefulSets))
        IN  /\ budgetSpec.minAvailable =
                  {pods - (IF DisruptionAllowed THEN 1 ELSE 0)}
            /\ \A m \in budgetSpec.minAvailable : pods - m \in {0, 1}

\* The spec has been built for a green cluster of two master nodes, one of
\* which is the only data node: every pod must stay available.
C28_Witness ==
    /\ budgetSpec /= zeroSpec
    /\ budgetInput.health = "green"
    /\ Cardinality(MasterPodsAskedFor(budgetInput.statefulSets)) = 2
    /\ Cardinality(DataPodsAskedFor(budgetInput.statefulSets)) = 1
    /\ budgetSpec.minAvailable = {2}

\* The positions of the calls of the last Reconcile with that operation and
\* one of those answers.
PdbCallsOf(op, answers) ==
    {i \in 1..Len(pdbRun.calls) :
        pdbRun.calls[i].op = op /\ pdbRun.calls[i].res \in answers}

\* The PodDisruptionBudget found by the last Reconcile was not the expected
\* one: its spec differs or an expected label is missing or differs.
FoundDiffers ==
    /\ pdbRun.before.exists
    /\ \/ pdbRun.before.spec /= pdbRun.expected.spec
       \/ \E k \in LabelKeys :
             /\ pdbRun.expected.labels[k] /= Nil
             /\ pdbRun.before.labels[k] /= pdbRun.expected.labels[k]

\* C29: after Reconcile has returned without error, no PodDisruptionBudget
\* exists when it is disabled in the spec, and otherwise one exists whose
\* spec is the expected one and whose labels include every expected label;
\* one that existed and differed has been deleted and then created again,
\* no call ever updates one in place, and after a delete that failed no
\* create is attempted.
C29_ReconcileEnsures ==
    pdbRun.ran =>
        /\ pdbRun.err = NoErr =>
              IF pdbRun.disabled
              THEN ~pdb.exists
              ELSE /\ pdb.exists
                   /\ pdb.spec = pdbRun.expected.spec
                   /\ \A k \in LabelKeys :
                         pdbRun.expected.labels[k] /= Nil =>
                             pdb.labels[k] = pdbRun.expected.labels[k]
        /\ (pdbRun.err = NoErr /\ ~pdbRun.disabled /\ FoundDiffers) =>
              /\ pdb = pdbRun.expected
              /\ \E i \in PdbCallsOf("Delete", {"ok", "notfound"}) :
                    \E j \in PdbCallsOf("Create", {"ok"}) : i < j
        /\ \A i \in 1..Len(pdbRun.calls) :
              pdbRun.calls[i].op \in {"Get", "Delete", "Create"}
        /\ PdbCallsOf("Delete", {"error"}) /= {} =>
              /\ pdbRun.err /= NoErr
              /\ PdbCallsOf("Create", {"ok", "error"}) = {}

\* Reconcile has returned without error after finding a PodDisruptionBudget
\* whose spec was not the expected one, which it deleted and created again.
C29_Witness ==
    /\ pdbRun.ran
    /\ pdbRun.err = NoErr
    /\ ~pdbRun.disabled
    /\ pdbRun.before.exists
    /\ pdbRun.before.spec /= pdbRun.expected.spec
    /\ PdbCallsOf("Delete", {"ok"}) /= {}
    /\ PdbCallsOf("Create", {"ok"}) /= {}
    /\ pdb = pdbRun.expected

\* The Elasticsearch reference of the last entry of the spec that declares
\* a remote cluster of that name with a reference, NoRef when there is none.
DeclaredRef(name) ==
    LET at == {i \in 1..Len(es.remoteClusters) :
                  es.remoteClusters[i].name = name /\ es.remoteClusters[i].ref /= NoRef}
    IN  IF at = {} THEN NoRef
        ELSE es.remoteClusters[CHOOSE i \in at : \A j \in at : j <= i].ref

\* The hash that the annotation records for that name, Nil when none.
Recorded(annotation, name) ==
    LET at == {i \in 1..Len(annotation.hashes) : annotation.hashes[i][1] = name}
    IN  IF at = {} THEN Nil ELSE annotation.hashes[CHOOSE i \in at : TRUE][2]

\* The hash expected for that name from the spec, Nil when it declares none.
ExpectedHash(name) ==
    IF DeclaredRef(name) = NoRef THEN Nil
    ELSE remoteClusterHash(RemoteCluster(<<ExternalTransportServiceHost(DeclaredRef(name))>>))

\* Before the last UpdateSettings the annotation recorded the expected hash
\* of every remote cluster of the spec and no other remote cluster.
NothingToUpdate ==
    \A n \in RemoteNames : Recorded(rcRun.before, n) = ExpectedHash(n)

\* C30: UpdateSettings updates the annotation only after the settings call
\* has succeeded, and to the hashes of the remote clusters expected from the
\* spec; a remote cluster that the annotation records and the spec does not
\* declare is sent with nil seeds; when the annotation already records the
\* expected hash of every expected remote cluster and nothing else, neither
\* call is issued; so a call made right after a successful one issues none.
C30_AnnotationAfterSettings ==
    rcRun.ran =>
        /\ \A j \in 1..Len(rcRun.calls) :
              rcRun.calls[j].op = "Update" =>
                  /\ j = 2
                  /\ rcRun.calls[1].op = "UpdateSettings"
                  /\ rcRun.calls[1].ok
                  /\ \A n \in RemoteNames :
                        Recorded(rcRun.calls[j].annotation, n) = ExpectedHash(n)
                  /\ rcRun.calls[j].ok => es.annotation = rcRun.calls[j].annotation
        /\ (rcRun.calls = <<>> \/ ~rcRun.calls[Len(rcRun.calls)].ok) =>
              es.annotation = rcRun.before
        /\ \A n \in RemoteNames :
              (/\ enterprise
               /\ rcRun.err /= "license"
               /\ Recorded(rcRun.before, n) /= Nil
               /\ DeclaredRef(n) = NoRef) =>
                  /\ rcRun.calls /= <<>>
                  /\ rcRun.calls[1].op = "UpdateSettings"
                  /\ rcRun.calls[1].remoteClusters[n] = <<>>
        /\ (rcRun.before.present /\ NothingToUpdate) => rcRun.calls = <<>>
        /\ rcRun.follows => rcRun.calls = <<>>

\* UpdateSettings has been called right after a call that issued the
\* settings call and then updated the annotation: it has issued no call.
C30_Witness ==
    /\ rcRun.ran
    /\ rcRun.follows
    /\ rcRun.previousCalls = 2
    /\ rcRun.calls = <<>>
    /\ rcRun.err = NoErr
    /\ enterprise
    /\ es.annotation.hashes /= <<>>
    /\ Len(es.remoteClusters) = 1

====
